---- MODULE Spec2Model ----
(***************************************************************************)
(* Model of the Go_proxy SOCKS5 gateway (server/server.go) and of the      *)
(* candidate pool it draws its upstream from (proxy/rotator.go).           *)
(*                                                                         *)
(* Byte strings (Go []byte and string) are sequences of numbers 0..255.    *)
(* A client connection carries the finite byte stream the client sends,    *)
(* followed by end-of-stream.  A handler goroutine is a process whose      *)
(* position is the field pc of its connection; it moves by one blocking    *)
(* call of handleConnection at a time.                                     *)
(***************************************************************************)
EXTENDS Integers, Sequences, FiniteSets, TLC

\* ------------------------------------------------------------- bounds
MaxConns == 2          \* connections accepted during one run
MaxStarts == 2         \* successful Start() calls (listeners created)
MaxPayload == 1        \* payload bytes per direction of a relay
MaxDomainLen == 2      \* length of the enumerated short domain names
NumProxies == 2        \* candidate objects on the heap
NumCallers == 2        \* goroutines that call the pool concurrently
NumCandidates == 3     \* candidate objects of the pool specifications
NumAddresses == 2      \* distinct addresses among these candidates
MaxListLen == 3        \* length of the pool's lists in the pool specifications
MaxBatch == 3          \* length of the lists handed to ConcurrentCheck
MaxParallel == 2       \* the values of the workers argument of ConcurrentCheck
TestLimit == 1         \* the limiter of TestAllProxies, scaled to the model's lists
NumSources == 3        \* the sources FetchAllProxies ranges over
MaxSourceLen == 2      \* addresses read from one source
MaxRotations == 2      \* calls of startRotation
MaxStops == 2          \* calls of stopRotation

\* -------------------------------------------------- program constants
BufSize == 256         \* make([]byte, 256)
SocksVersion == 5      \* 0x05
CmdConnect == 1        \* buf[1] != 0x01
AtypIPv4 == 1          \* case 0x01
AtypDomain == 3        \* case 0x03

Conns == 1..MaxConns
Loops == 1..MaxStarts
Callers == 1..NumCallers
ProxyIds == 1..NumProxies
CandIds == 1..NumCandidates
NilProxy == 0

\* ------------------------------------------------------ byte strings
Colon == 58            \* ':'
Percent == 37          \* '%'
Dot == 46              \* '.'
LBracket == 91         \* '['
RBracket == 93         \* ']'
Zero == 48             \* '0'

Fill(n, b) == [i \in 1..n |-> b]

\* strconv.Itoa for a non-negative int: decimal digits, no leading zero.
RECURSIVE Itoa(_)
Itoa(n) == IF n < 10 THEN <<Zero + n>> ELSE Itoa(n \div 10) \o <<Zero + (n % 10)>>

\* net.IPv4(a, b, c, d).String(): dotted decimal.
IPv4String(a, b, c, d) ==
    Itoa(a) \o <<Dot>> \o Itoa(b) \o <<Dot>> \o Itoa(c) \o <<Dot>> \o Itoa(d)

\* The two bytes read in the other order.
BigEndianUint16LE(b) == (b[2] * 256 + b[1]) % 65536
\* binary.BigEndian.Uint16(b): b[0]<<8 | b[1], a 16-bit value.
BigEndianUint16(b) == (b[1] * 256 + b[2]) % 65536

\* net.JoinHostPort: a host holding ':' or '%' is put in brackets.
JoinHostPort(host, port) ==
    IF \E i \in 1..Len(host) : host[i] \in {Colon, Percent}
    THEN <<LBracket>> \o host \o <<RBracket, Colon>> \o port
    ELSE host \o <<Colon>> \o port

\* io.ReadFull(conn, buf[:n]) on a connection whose unread input is `in`:
\* n bytes when they are there, otherwise an error after consuming the rest.
ReadFull(in, n) ==
    IF Len(in) >= n
    THEN [ok |-> TRUE, data |-> SubSeq(in, 1, n), rest |-> SubSeq(in, n + 1, Len(in))]
    ELSE [ok |-> FALSE, data |-> in, rest |-> <<>>]

\* ------------------------------------------------- handshake replies
AuthReply == <<5, 0>>
SuccessFrame == <<5, 0, 0, 1, 0, 0, 0, 0, 0, 0>>

\* Result of a handshake function: err (an error is returned), panic (the
\* goroutine panics), rest (input left unread), out (bytes written to the
\* client), host (the returned target string).  A failed conn.Write delivers
\* nothing and its error is the one returned.
Result(err, panic, rest, out, host) ==
    [err |-> err, panic |-> panic, werr |-> FALSE, rest |-> rest, out |-> out,
     host |-> host]
WriteFailed(rest, host) ==
    [err |-> TRUE, panic |-> FALSE, werr |-> TRUE, rest |-> rest, out |-> <<>>,
     host |-> host]

\* A socks5Auth that insists on method 0 being offered.
socks5AuthStrict(in, wok) ==
    LET h == ReadFull(in, 2) IN
    IF ~h.ok THEN Result(TRUE, FALSE, h.rest, <<>>, <<>>)
    ELSE IF h.data[1] # SocksVersion THEN Result(TRUE, FALSE, h.rest, <<>>, <<>>)
    ELSE LET m == ReadFull(h.rest, h.data[2]) IN
         IF ~m.ok \/ ~(\E i \in 1..Len(m.data) : m.data[i] = 0)
         THEN Result(TRUE, FALSE, m.rest, <<>>, <<>>)
         ELSE IF wok THEN Result(FALSE, FALSE, m.rest, AuthReply, <<>>)
              ELSE WriteFailed(m.rest, <<>>)
\* Server.socks5Auth.  wok: conn.Write succeeds.
socks5Auth(in, wok) ==
    LET h == ReadFull(in, 2) IN
    IF ~h.ok THEN Result(TRUE, FALSE, h.rest, <<>>, <<>>)
    ELSE IF h.data[1] # SocksVersion THEN Result(TRUE, FALSE, h.rest, <<>>, <<>>)
    ELSE LET m == ReadFull(h.rest, h.data[2]) IN
         IF ~m.ok THEN Result(TRUE, FALSE, m.rest, <<>>, <<>>)
         ELSE IF wok THEN Result(FALSE, FALSE, m.rest, AuthReply, <<>>)
              ELSE WriteFailed(m.rest, <<>>)

\* Server.socks5Connect.  The slice buf[:domainLen+2] of the 256-byte buffer
\* is taken before the read: beyond the capacity it panics.  The host is
\* returned together with the error of the final write.
socks5Connect(in, wok) ==
    LET h == ReadFull(in, 4)
        Fail(rest) == Result(TRUE, FALSE, rest, <<>>, <<>>)
        Reply(rest, host) ==
            IF wok THEN Result(FALSE, FALSE, rest, SuccessFrame, host)
            ELSE WriteFailed(rest, host)
    IN
    IF ~h.ok THEN Fail(h.rest)
    ELSE IF h.data[1] # SocksVersion \/ h.data[2] # CmdConnect THEN Fail(h.rest)
    ELSE IF h.data[4] = AtypIPv4 THEN
        LET a == ReadFull(h.rest, 6) IN
        IF ~a.ok THEN Fail(a.rest)
        ELSE Reply(a.rest,
                   JoinHostPort(IPv4String(a.data[1], a.data[2], a.data[3], a.data[4]),
                                Itoa(BigEndianUint16(SubSeq(a.data, 5, 6)))))
    ELSE IF h.data[4] = AtypDomain THEN
        LET l == ReadFull(h.rest, 1) IN
        IF ~l.ok THEN Fail(l.rest)
        ELSE LET domainLen == l.data[1] IN
             IF domainLen + 2 > BufSize
             THEN Result(TRUE, TRUE, l.rest, <<>>, <<>>)
             ELSE LET d == ReadFull(l.rest, domainLen + 2) IN
                  IF ~d.ok THEN Fail(d.rest)
                  ELSE Reply(d.rest,
                             JoinHostPort(SubSeq(d.data, 1, domainLen),
                                          Itoa(BigEndianUint16(
                                              SubSeq(d.data, domainLen + 1, domainLen + 2)))))
    ELSE Fail(h.rest)

\* ------------------------------------------------------------- state
VARIABLES
    running,        \* Server.running
    listener,       \* Server.listener: id of the listener last created, 0 = nil
    lsnOpen,        \* ids of the listeners that are not closed
    loops,          \* the acceptConnections goroutines, one per successful Start
    conn,           \* the accepted connections and their handler goroutines
    crashed,        \* the process died of an unrecovered panic
    heap,           \* the Proxy objects, by pointer
    rawProxies,     \* Rotator.rawProxies: sequence of pointers
    validProxies,   \* Rotator.validProxies: sequence of pointers
    lastCall,       \* the last call of Start or Stop whose caller kept its result,
                    \* and the last of these calls that returned nil
    mutex,          \* Rotator.mutex: the writer holding it and the readers holding it
    callers,        \* the goroutines that call the pool, and where each one is
    batch,          \* the runs of ConcurrentCheck and TestAllProxies
    probes,         \* the goroutines these runs start, one per candidate
    fetch,          \* the run of FetchAllProxies
    rotation        \* App's rotation fields and the goroutines of startRotation

vars == <<running, listener, lsnOpen, loops, conn, crashed,
          heap, rawProxies, validProxies, lastCall, mutex, callers, batch, probes,
          fetch, rotation>>
checkVars == <<batch, probes>>
appVars == <<fetch, rotation>>
serverVars == <<running, listener, lsnOpen, loops, lastCall>>
poolVars == <<heap, rawProxies, validProxies, mutex, callers>>

\* Before any call of Start or Stop.
NoCall == [op |-> "none", err |-> "", ok |-> "none"]
\* sync.RWMutex: writer is the goroutine holding Lock (0: none), readers the
\* goroutines holding RLock.
FreeMutex == [writer |-> 0, readers |-> {}]
\* The arguments of a pool operation: a list of pointers and two numbers.
NoArg == [list |-> <<>>, a |-> 0, b |-> 0]
ListArg(l) == [NoArg EXCEPT !.list = l]
NumArg(a, b) == [NoArg EXCEPT !.a = a, !.b = b]
\* The pool before any operation.
EmptyPool == [raw |-> <<>>, valid |-> <<>>]
\* A goroutine that is not inside a pool operation.
IdleCaller ==
    [pc |-> "idle",        \* idle, in (lock held), done (about to unlock), returned
     op |-> "none",        \* the operation called
     arg |-> NoArg,        \* its arguments; arg.list is the caller's own slice
     before |-> EmptyPool, \* the pool when the lock was acquired
     i |-> 0,              \* loop index, or the statement reached
     seen |-> {},          \* AddRawProxies: the addresses seen
     tmp |-> <<>>,         \* the local slice of the operation
     ret |-> <<>>,         \* the list returned
     n |-> 0]              \* the number returned

\* The runs of ConcurrentCheck or TestAllProxies that may overlap, and the
\* goroutines they start: run r starts the goroutine Slot(r, k) for the k-th
\* candidate of its list; MainOf(r) is the goroutine of the run itself.
Runs == {1, 2}
Workers == 1..(2 * MaxBatch)
Slot(r, k) == (r - 1) * MaxBatch + k
MainOf(r) == 2 * MaxBatch + r
Goroutines == 1..(2 * MaxBatch + 2)

\* A run that has not been started.
NoBatch ==
    [pc |-> "none",        \* none, getraw, clear, loop, wait, returned
     kind |-> "none",      \* ConcurrentCheck or TestAllProxies
     list |-> <<>>,        \* the list the run ranges over
     i |-> 0,              \* the candidates the loop has been through
     limit |-> 0,          \* cap(sem)
     sem |-> 0,            \* len(sem)
     wg |-> 0]             \* the counter of the WaitGroup
\* A goroutine that has not been started.
NoProbe ==
    [pc |-> "none",        \* none, score, get, decode, speed, returned,
                           \* released, exited
     p |-> 0,              \* the candidate it was given
     run |-> 0,            \* the run that started it
     calls |-> 0,          \* calls of CheckConnectivityAndSpeed it has made,
                           \* counted up to two
     err |-> "",           \* the error of the last call; "" stands for nil
     reached |-> FALSE,    \* the GET of the last call got a response
     dlErr |-> FALSE,      \* checkSpeed returned an error in the last call
     oldFail |-> 0,        \* FailCount of the candidate when the call began
     anon |-> ""]          \* the anonymity the last call returned

Range(s) == {s[i] : i \in 1..Len(s)}
SeqsUpTo(S, n) == UNION {[1..k -> S] : k \in 0..n}
Prefixes(s) == {SubSeq(s, 1, k) : k \in 0..Len(s)}

\* A connection slot before it is accepted.
IdleConn ==
    [pc |-> "idle",           \* position of the handler goroutine
     trace |-> <<>>,          \* positions entered so far, in order
     stream |-> <<>>,         \* everything the client sends on this connection
     inbuf |-> <<>>,          \* the part of stream not yet read
     sent |-> <<>>,           \* handshake bytes written to the client
     target |-> <<>>,         \* host string returned by socks5Connect
     proxy |-> NilProxy,      \* candidate returned by GetNextProxy
     selects |-> 0,           \* calls of GetNextProxy
     dials |-> 0,             \* calls of dialUpstream
     dialOk |-> FALSE,        \* dialUpstream returned a connection
     writeErr |-> FALSE,      \* a handshake write to the client failed
     via |-> "none",          \* how dialUpstream dialed
     clientOpen |-> FALSE,    \* the client socket is open
     upstream |-> "none",     \* the upstream socket: none, open, closed
     c2u |-> "idle",          \* client-to-upstream copy goroutine
     u2c |-> "idle",          \* upstream-to-client copy goroutine
     upWriteClosed |-> FALSE, \* CloseWrite was called on the upstream socket
     cliWriteClosed |-> FALSE,\* CloseWrite was called on the client socket
     upRecv |-> <<>>,         \* payload delivered to the upstream
     down |-> <<>>,           \* payload delivered to the client
     upbuf |-> <<>>]          \* what the upstream still sends

Goto(r, pc) == [r EXCEPT !.pc = pc, !.trace = Append(r.trace, pc)]

\* ------------------------------------------------------ candidate pool
\* Latency is kept in tenths of a second and Speed in KB/s; the candidates
\* of this model have a Latency L with L + 1 dividing 10 and a Speed that is
\* a multiple of 10, so that the weight below is exactly the value Go computes.
InitProxy(i) ==
    [Address |-> i,
     Protocol |-> IF i % 2 = 1 THEN "socks5" ELSE "http",
     Latency |-> IF i % 2 = 1 THEN 1 ELSE 4,
     Speed |-> 10 * (i % 3),
     FailCount |-> 0,
     LastChecked |-> 0,
     Anonymity |-> "",
     Score |-> 0]

\* 1/(p.Latency+0.1) + p.Speed*0.1
Weight(p) == (10 \div (p.Latency + 1)) + (p.Speed \div 10)

RECURSIVE SumWeights(_, _)
SumWeights(h, ps) ==
    IF ps = <<>> THEN 0 ELSE Weight(h[Head(ps)]) + SumWeights(h, Tail(ps))

\* The walk of GetNextProxy from index i with runningScore `run`; r2 is
\* twice randScore (draws are enumerated in steps of one half).
RECURSIVE WalkProxies(_, _, _, _, _)
WalkProxies(h, ps, i, run, r2) ==
    IF i > Len(ps) THEN ps[Len(ps)]
    ELSE LET run1 == run + Weight(h[ps[i]]) IN
         IF 2 * run1 >= r2 THEN ps[i] ELSE WalkProxies(h, ps, i + 1, run1, r2)

\* A walk that passes a candidate whose cumulative weight equals the draw.
RECURSIVE WalkProxiesStrict(_, _, _, _, _)
WalkProxiesStrict(h, ps, i, run, r2) ==
    IF i > Len(ps) THEN ps[Len(ps)]
    ELSE LET run1 == run + Weight(h[ps[i]]) IN
         IF 2 * run1 > r2 THEN ps[i] ELSE WalkProxiesStrict(h, ps, i + 1, run1, r2)

GetNextProxyStrict(h, ps, r2) ==
    IF Len(ps) = 0 THEN NilProxy ELSE WalkProxiesStrict(h, ps, 1, 0, r2)

\* Rotator.GetNextProxy on the valid list ps: nil when it is empty.
GetNextProxy(h, ps, r2) ==
    IF Len(ps) = 0 THEN NilProxy ELSE WalkProxies(h, ps, 1, 0, r2)

\* The values rand.Float64() * totalScore can take, doubled.
Draws(h, ps) ==
    IF Len(ps) = 0 THEN {0} ELSE 0..(2 * SumWeights(h, ps) - 1)

\* Rotator.SetValidProxies
SetValidProxies(ps) ==
    /\ ~crashed
    /\ validProxies' = ps
    /\ UNCHANGED <<heap, rawProxies, mutex, callers, serverVars, conn, crashed, checkVars, appVars>>

PoolChoices == {<<>>, [i \in ProxyIds |-> i]}

\* ------------------------------------------------- the pool operations
\* The candidates of the pool specifications.  LastChecked and the clock are
\* in whole time units; a pool operation takes less than one unit.
Candidate(a, l, s, f, t) ==
    [Address |-> a, Protocol |-> "socks5", Latency |-> l, Speed |-> s,
     FailCount |-> f, LastChecked |-> t, Anonymity |-> "", Score |-> 0]

MaxFailCount == 5

Addresses(h, ps) == {h[ps[k]].Address : k \in 1..Len(ps)}

\* An iteration that does not record the address it has appended.
SeenForgetful(h, seen, p) == seen
\* seen[p.Address] = true
SeenAfter(h, seen, p) == seen \cup {h[p].Address}

\* An iteration that puts the new candidate in the place of the entry that
\* has its address.
ReplaceIfSeen(h, raw, seen, p) ==
    IF h[p].Address \in seen
    THEN [k \in 1..Len(raw) |-> IF h[raw[k]].Address = h[p].Address THEN p ELSE raw[k]]
    ELSE Append(raw, p)

\* if !seen[p.Address] { r.rawProxies = append(r.rawProxies, p) }
AppendIfUnseen(h, raw, seen, p) ==
    IF h[p].Address \in seen THEN raw ELSE Append(raw, p)

\* The second loop of AddRawProxies, from the map `seen` on.
RECURSIVE AppendUnseen(_, _, _, _)
AppendUnseen(h, raw, seen, list) ==
    IF list = <<>> THEN raw
    ELSE AppendUnseen(h, AppendIfUnseen(h, raw, seen, Head(list)),
                      SeenAfter(h, seen, Head(list)), Tail(list))

\* The condition of CleanupProxies with <= replaced by <.
KeepsStrictlyYounger(p, maxAge, now) ==
    p.FailCount < MaxFailCount /\ now - p.LastChecked < maxAge
\* The condition under which CleanupProxies keeps p; now is the clock read
\* by time.Since.
Keeps(p, maxAge, now) ==
    p.FailCount < MaxFailCount /\ now - p.LastChecked <= maxAge

\* The loop of CleanupProxies.
RECURSIVE Kept(_, _, _, _)
Kept(h, ps, maxAge, now) ==
    IF ps = <<>> THEN <<>>
    ELSE IF Keeps(h[Head(ps)], maxAge, now)
         THEN <<Head(ps)>> \o Kept(h, Tail(ps), maxAge, now)
         ELSE Kept(h, Tail(ps), maxAge, now)

\* The condition of GetFilteredAndSortedProxies; a negative bound is no bound.
Passes(p, maxLatency, minSpeed) ==
    /\ maxLatency < 0 \/ p.Latency <= maxLatency
    /\ minSpeed < 0 \/ p.Speed >= minSpeed

\* The loop of GetFilteredAndSortedProxies.
RECURSIVE Filtered(_, _, _, _)
Filtered(h, ps, maxLatency, minSpeed) ==
    IF ps = <<>> THEN <<>>
    ELSE IF Passes(h[Head(ps)], maxLatency, minSpeed)
         THEN <<Head(ps)>> \o Filtered(h, Tail(ps), maxLatency, minSpeed)
         ELSE Filtered(h, Tail(ps), maxLatency, minSpeed)

\* An insertion that puts p before the entries of equal latency.
RECURSIVE InsertBeforeEqual(_, _, _)
InsertBeforeEqual(h, sorted, p) ==
    IF sorted = <<>> THEN <<p>>
    ELSE IF h[p].Latency <= h[Head(sorted)].Latency THEN <<p>> \o sorted
    ELSE <<Head(sorted)>> \o InsertBeforeEqual(h, Tail(sorted), p)
\* One insertion of the stable sort: p goes behind every entry that is not
\* greater, with less(i, j) = filtered[i].Latency < filtered[j].Latency.
RECURSIVE Insert(_, _, _)
Insert(h, sorted, p) ==
    IF sorted = <<>> THEN <<p>>
    ELSE IF h[p].Latency < h[Head(sorted)].Latency THEN <<p>> \o sorted
    ELSE <<Head(sorted)>> \o Insert(h, Tail(sorted), p)

\* sort.SliceStable by Latency: ps[1..k] sorted, for k = Len(ps).
RECURSIVE SliceStable(_, _, _)
SliceStable(h, ps, k) ==
    IF k = 0 THEN <<>> ELSE Insert(h, SliceStable(h, ps, k - 1), ps[k])

\* copy(dst, src) into a slice made with the length n.
Copy(n, src) == [k \in 1..n |-> IF k <= Len(src) THEN src[k] ELSE NilProxy]

\* What the pool holds.
Pool == [raw |-> rawProxies, valid |-> validProxies]

ReadOps == {"GetRawProxies", "GetValidProxies", "GetValidProxyCount",
            "GetFilteredAndSortedProxies"}
WriteOps == {"SetRawProxies", "AddRawProxies", "SetValidProxies", "AddValidProxies",
             "CleanupProxies", "GetNextProxy"}

\* A pool in which AddValidProxies takes no lock.
LockModeAddValidUnlocked(op) ==
    IF op \in ReadOps THEN "RLock" ELSE IF op = "AddValidProxies" THEN "none" ELSE "Lock"
\* A pool in which the two getters of a list take no lock.
LockModeGettersUnlocked(op) ==
    IF op \in {"GetRawProxies", "GetValidProxies"} THEN "none"
    ELSE IF op \in ReadOps THEN "RLock" ELSE "Lock"
\* The first statement of each operation: r.mutex.RLock() or r.mutex.Lock().
LockMode(op) == IF op \in ReadOps THEN "RLock" ELSE "Lock"

\* sync.RWMutex: Lock waits for the writer and the readers, RLock for the
\* writer.
CanLock(mode) ==
    IF mode = "Lock" THEN mutex.writer = 0 /\ mutex.readers = {}
    ELSE IF mode = "RLock" THEN mutex.writer = 0
    ELSE TRUE
Locked(g, mode) ==
    IF mode = "Lock" THEN [mutex EXCEPT !.writer = g]
    ELSE IF mode = "RLock" THEN [mutex EXCEPT !.readers = @ \cup {g}]
    ELSE mutex
Unlocked(g) ==
    [writer |-> IF mutex.writer = g THEN 0 ELSE mutex.writer,
     readers |-> mutex.readers \ {g}]

\* Goroutine g calls the operation op with arg and gets past its first
\* statement, the acquisition of the lock.
Call(g, op, arg) ==
    /\ callers[g].pc = "idle"
    /\ CanLock(LockMode(op))
    /\ mutex' = Locked(g, LockMode(op))
    /\ callers' = [callers EXCEPT ![g] =
                     [IdleCaller EXCEPT !.pc = "in", !.op = op, !.arg = arg, !.before = Pool]]
    /\ UNCHANGED <<heap, rawProxies, validProxies, serverVars, conn, crashed, checkVars, appVars>>

\* The deferred Unlock or RUnlock, and the return.  keep: the caller goes on
\* holding what was returned; otherwise it drops it at once.
Unlock(g, keep) ==
    /\ callers[g].pc = "done"
    /\ mutex' = Unlocked(g)
    /\ callers' = [callers EXCEPT ![g] =
                     IF keep THEN [callers[g] EXCEPT !.pc = "returned"] ELSE IdleCaller]
    /\ UNCHANGED <<heap, rawProxies, validProxies, serverVars, conn, crashed, checkVars, appVars>>

\* The caller drops what it holds and is ready for its next call.
Drop(g) ==
    /\ callers[g].pc = "returned"
    /\ callers' = [callers EXCEPT ![g] = IdleCaller]
    /\ UNCHANGED <<heap, rawProxies, validProxies, mutex, serverVars, conn, crashed, checkVars, appVars>>

In(g, op) == callers[g].pc = "in" /\ callers[g].op = op

\* Rotator.SetRawProxies, after the lock.
SetRawProxies(g) ==
    /\ In(g, "SetRawProxies")
    /\ rawProxies' = callers[g].arg.list
    /\ callers' = [callers EXCEPT ![g].pc = "done"]
    /\ UNCHANGED <<heap, validProxies, mutex, serverVars, conn, crashed, checkVars, appVars>>

\* Rotator.AddRawProxies, after the lock: the first loop (i = 0), then one
\* iteration of the second loop for each entry of the list.
AddRawProxies(g) ==
    /\ In(g, "AddRawProxies")
    /\ LET c == callers[g]
           list == c.arg.list
           next == [c EXCEPT !.i = @ + 1,
                             !.pc = IF c.i + 1 > Len(list) THEN "done" ELSE "in"] IN
       IF c.i = 0
       THEN /\ callers' = [callers EXCEPT ![g] =
                             [next EXCEPT !.seen = Addresses(heap, rawProxies)]]
            /\ UNCHANGED rawProxies
       ELSE /\ rawProxies' = AppendIfUnseen(heap, rawProxies, c.seen, list[c.i])
            /\ callers' = [callers EXCEPT ![g] =
                             [next EXCEPT !.seen = SeenAfter(heap, c.seen, list[c.i])]]
    /\ UNCHANGED <<heap, validProxies, mutex, serverVars, conn, crashed, checkVars, appVars>>

\* Rotator.GetRawProxies, after the lock: make (i = 0), then copy.
GetRawProxies(g) ==
    /\ In(g, "GetRawProxies")
    /\ LET c == callers[g] IN
       callers' = [callers EXCEPT ![g] =
                     IF c.i = 0
                     THEN [c EXCEPT !.i = 1, !.tmp = Copy(Len(rawProxies), <<>>)]
                     ELSE [c EXCEPT !.ret = Copy(Len(c.tmp), rawProxies), !.pc = "done"]]
    /\ UNCHANGED <<heap, rawProxies, validProxies, mutex, serverVars, conn, crashed, checkVars, appVars>>

\* Rotator.SetValidProxies, after the lock.
SetValidProxiesBody(g) ==
    /\ In(g, "SetValidProxies")
    /\ validProxies' = callers[g].arg.list
    /\ callers' = [callers EXCEPT ![g].pc = "done"]
    /\ UNCHANGED <<heap, rawProxies, mutex, serverVars, conn, crashed, checkVars, appVars>>

\* An append that leaves out the candidates whose address the valid list or
\* the part of the argument before them already has.
RECURSIVE AppendNew(_, _, _)
AppendNew(h, valid, list) ==
    IF list = <<>> THEN valid
    ELSE AppendNew(h,
                   IF h[Head(list)].Address \in Addresses(h, valid)
                   THEN valid ELSE Append(valid, Head(list)),
                   Tail(list))

AddValidProxiesDedup(g) ==
    /\ In(g, "AddValidProxies")
    /\ IF callers[g].i = 0
       THEN /\ callers' = [callers EXCEPT ![g] =
                             [callers[g] EXCEPT !.i = 1,
                                 !.tmp = AppendNew(heap, validProxies, callers[g].arg.list)]]
            /\ UNCHANGED validProxies
       ELSE /\ validProxies' = callers[g].tmp
            /\ callers' = [callers EXCEPT ![g].pc = "done"]
    /\ UNCHANGED <<heap, rawProxies, mutex, serverVars, conn, crashed, checkVars, appVars>>

\* Rotator.AddValidProxies, after the lock: append is evaluated (i = 0), then
\* its result is stored.
AddValidProxies(g) ==
    /\ In(g, "AddValidProxies")
    /\ IF callers[g].i = 0
       THEN /\ callers' = [callers EXCEPT ![g] =
                             [callers[g] EXCEPT !.i = 1,
                                 !.tmp = validProxies \o callers[g].arg.list]]
            /\ UNCHANGED validProxies
       ELSE /\ validProxies' = callers[g].tmp
            /\ callers' = [callers EXCEPT ![g].pc = "done"]
    /\ UNCHANGED <<heap, rawProxies, mutex, serverVars, conn, crashed, checkVars, appVars>>

\* Rotator.GetValidProxies, after the lock: make (i = 0), then copy.
GetValidProxies(g) ==
    /\ In(g, "GetValidProxies")
    /\ LET c == callers[g] IN
       callers' = [callers EXCEPT ![g] =
                     IF c.i = 0
                     THEN [c EXCEPT !.i = 1, !.tmp = Copy(Len(validProxies), <<>>)]
                     ELSE [c EXCEPT !.ret = Copy(Len(c.tmp), validProxies), !.pc = "done"]]
    /\ UNCHANGED <<heap, rawProxies, validProxies, mutex, serverVars, conn, crashed, checkVars, appVars>>

\* Rotator.GetValidProxyCount, after the lock.
GetValidProxyCount(g) ==
    /\ In(g, "GetValidProxyCount")
    /\ callers' = [callers EXCEPT ![g] =
                     [callers[g] EXCEPT !.n = Len(validProxies), !.pc = "done"]]
    /\ UNCHANGED <<heap, rawProxies, validProxies, mutex, serverVars, conn, crashed, checkVars, appVars>>

\* Rotator.CleanupProxies, after the lock: the loop fills the local slice
\* (i = 0), then the slice is stored.  arg.a is maxAge, arg.b the clock.
CleanupProxies(g) ==
    /\ In(g, "CleanupProxies")
    /\ IF callers[g].i = 0
       THEN /\ callers' = [callers EXCEPT ![g] =
                             [callers[g] EXCEPT !.i = 1,
                                 !.tmp = Kept(heap, validProxies,
                                              callers[g].arg.a, callers[g].arg.b)]]
            /\ UNCHANGED validProxies
       ELSE /\ validProxies' = callers[g].tmp
            /\ callers' = [callers EXCEPT ![g].pc = "done"]
    /\ UNCHANGED <<heap, rawProxies, mutex, serverVars, conn, crashed, checkVars, appVars>>

\* Rotator.GetFilteredAndSortedProxies, after the lock.  arg.a is maxLatency,
\* arg.b is minSpeed.
GetFilteredAndSortedProxies(g) ==
    /\ In(g, "GetFilteredAndSortedProxies")
    /\ LET f == Filtered(heap, validProxies, callers[g].arg.a, callers[g].arg.b) IN
       callers' = [callers EXCEPT ![g] =
                     [callers[g] EXCEPT !.ret = SliceStable(heap, f, Len(f)), !.pc = "done"]]
    /\ UNCHANGED <<heap, rawProxies, validProxies, mutex, serverVars, conn, crashed, checkVars, appVars>>

\* A selection that takes the candidate it returns out of the valid list.
GetNextProxyBodyPopping(g, r2) ==
    /\ In(g, "GetNextProxy")
    /\ LET p == GetNextProxy(heap, validProxies, r2) IN
       /\ callers' = [callers EXCEPT ![g] =
                        [callers[g] EXCEPT !.ret = IF p = NilProxy THEN <<>> ELSE <<p>>,
                                           !.pc = "done"]]
       /\ validProxies' = SelectSeq(validProxies, LAMBDA q : q # p)
    /\ UNCHANGED <<heap, rawProxies, mutex, serverVars, conn, crashed, checkVars, appVars>>

\* Rotator.GetNextProxy, after the lock, with the draw r2 of the random source.
GetNextProxyBody(g, r2) ==
    /\ In(g, "GetNextProxy")
    /\ LET p == GetNextProxy(heap, validProxies, r2) IN
       callers' = [callers EXCEPT ![g] =
                     [callers[g] EXCEPT !.ret = IF p = NilProxy THEN <<>> ELSE <<p>>,
                                        !.pc = "done"]]
    /\ UNCHANGED <<heap, rawProxies, validProxies, mutex, serverVars, conn, crashed, checkVars, appVars>>

\* The holder of a candidate assigns its Latency, as the validation of the
\* candidates returned by GetRawProxies does.
SetLatency(g, p, l) ==
    /\ callers[g].pc = "returned"
    /\ p \in Range(callers[g].ret)
    /\ p # NilProxy
    /\ heap' = [heap EXCEPT ![p].Latency = l]
    /\ UNCHANGED <<rawProxies, validProxies, mutex, callers, serverVars, conn, crashed, checkVars, appVars>>

\* ------------------------------------------------ the validation engine
Min(a, b) == IF a <= b THEN a ELSE b
Max(a, b) == IF a >= b THEN a ELSE b

\* strings.ToLower on the protocol names of the model.
ToLower(s) ==
    IF s = "SOCKS5" THEN "socks5" ELSE IF s = "HTTP" THEN "http" ELSE s

\* createProxyClient returns a client: the protocol is one of its cases.
ClientOk(c) == ToLower(c.Protocol) \in {"http", "https", "socks5", "socks4"}

\* A score whose speed part has no upper limit.
ScoreOfUncapped(c) ==
    LET latencyScore == 1000 - 20 * Min(c.Latency, 50)
        speedScore == c.Speed
        anonymityScore == IF c.Anonymity = "Elite" THEN 500
                          ELSE IF c.Anonymity = "Anonymous" THEN 250 ELSE 0
        failPenalty == 125 * c.FailCount
    IN  Max(0, latencyScore + speedScore + anonymityScore - failPenalty)

\* The value calculateScore assigns to p.Score, times 25: with Latency in
\* tenths of a second, (1 - min(Latency/5, 1))*40 is 40 - min(L, 50)*4/5 and
\* min(Speed/1000, 1)*40 is min(S, 1000)/25, so 25 times the score is the
\* integer below.
ScoreOf(c) ==
    LET latencyScore == 1000 - 20 * Min(c.Latency, 50)
        speedScore == Min(c.Speed, 1000)
        anonymityScore == IF c.Anonymity = "Elite" THEN 500
                          ELSE IF c.Anonymity = "Anonymous" THEN 250 ELSE 0
        failPenalty == 125 * c.FailCount
    IN  Max(0, latencyScore + speedScore + anonymityScore - failPenalty)

\* Goroutine g is inside a call of CheckConnectivityAndSpeed.
Validating(g) == probes[g].pc \in {"score", "get", "decode", "speed"}

\* CheckConnectivityAndSpeed, first statement: calculateScore(p), at the
\* clock reading now.
CalculateScore(g, now) ==
    /\ probes[g].pc = "score"
    /\ LET p == probes[g].p
           c == heap[p]
       IN  /\ heap' = [heap EXCEPT ![p] =
                         [c EXCEPT !.LastChecked = now, !.Score = ScoreOf(c)]]
           /\ probes' = [probes EXCEPT ![g] =
                           [probes[g] EXCEPT !.pc = "get",
                               !.calls = Min(probes[g].calls + 1, 2),
                               !.err = "", !.reached = FALSE, !.dlErr = FALSE,
                               !.anon = "",
                               !.oldFail = c.FailCount]]
    /\ UNCHANGED <<rawProxies, validProxies, mutex, callers, batch, serverVars, conn, crashed, appVars>>

\* checkProxy up to the assignment of p.Latency: createProxyClient, then the
\* GET of the echo endpoint (getOk: it got a response, after l tenths of a
\* second).
Reach(g, getOk, l) ==
    /\ probes[g].pc = "get"
    /\ LET p == probes[g].p IN
       IF ~ClientOk(heap[p])
       THEN /\ probes' = [probes EXCEPT ![g] =
                            [probes[g] EXCEPT !.pc = "returned", !.err = "client"]]
            /\ UNCHANGED heap
       ELSE IF ~getOk
       THEN /\ probes' = [probes EXCEPT ![g] =
                            [probes[g] EXCEPT !.pc = "returned", !.err = "get"]]
            /\ UNCHANGED heap
       ELSE /\ heap' = [heap EXCEPT ![p].Latency = l]
            /\ probes' = [probes EXCEPT ![g] =
                            [probes[g] EXCEPT !.pc = "decode", !.reached = TRUE]]
    /\ UNCHANGED <<rawProxies, validProxies, mutex, callers, batch, serverVars, conn, crashed, appVars>>

\* A classification that calls a candidate whose address is forwarded
\* transparent.
ClassifyTransparent(decodes, forwardedFor) ==
    IF ~decodes THEN ""
    ELSE IF forwardedFor # "" THEN "Transparent" ELSE "Elite"

\* checkProxy, what the echoed body gives: nothing when it does not decode
\* as JSON, else "Anonymous" when headers["X-Forwarded-For"] is a string
\* that is not empty, else "Elite" (forwardedFor is "" when the header or
\* the headers are missing).
Classify(decodes, forwardedFor) ==
    IF ~decodes THEN ""
    ELSE IF forwardedFor # "" THEN "Anonymous" ELSE "Elite"

\* checkProxy, the decoding of the echoed headers: a is "" when the body
\* does not decode, "Anonymous" when X-Forwarded-For is there, else "Elite".
Decode(g, a) ==
    /\ probes[g].pc = "decode"
    /\ heap' = IF a = "" THEN heap ELSE [heap EXCEPT ![probes[g].p].Anonymity = a]
    /\ probes' = [probes EXCEPT ![g].pc = "speed"]
    /\ UNCHANGED <<rawProxies, validProxies, mutex, callers, batch, serverVars, conn, crashed, appVars>>

\* What checkSpeed returns: 0 with its error, the speed without.
checkSpeed(dlOk, s) == IF dlOk THEN s ELSE 0

\* A checkProxy that adds the candidate to the valid list when it succeeds.
CheckSpeedPromoting(g, dlOk, s) ==
    /\ probes[g].pc = "speed"
    /\ heap' = [heap EXCEPT ![probes[g].p].Speed = checkSpeed(dlOk, s)]
    /\ probes' = [probes EXCEPT ![g] =
                    [probes[g] EXCEPT !.pc = "returned", !.dlErr = ~dlOk, !.err = "",
                        !.anon = heap[probes[g].p].Anonymity]]
    /\ validProxies' = Append(validProxies, probes[g].p)
    /\ UNCHANGED <<rawProxies, mutex, callers, batch, serverVars, conn, crashed, appVars>>

\* checkProxy, the end: speed, _ := c.checkSpeed(client); p.Speed = speed;
\* return p.Latency, p.Anonymity, nil.
CheckSpeed(g, dlOk, s) ==
    /\ probes[g].pc = "speed"
    /\ heap' = [heap EXCEPT ![probes[g].p].Speed = checkSpeed(dlOk, s)]
    /\ probes' = [probes EXCEPT ![g] =
                    [probes[g] EXCEPT !.pc = "returned", !.dlErr = ~dlOk, !.err = "",
                        !.anon = heap[probes[g].p].Anonymity]]
    /\ UNCHANGED <<rawProxies, validProxies, mutex, callers, batch, serverVars, conn, crashed, appVars>>

\* The holder of the candidate calls CheckConnectivityAndSpeed on it again.
Revalidate(g) ==
    /\ probes[g].pc = "returned"
    /\ probes[g].run = 0
    /\ probes' = [probes EXCEPT ![g].pc = "score"]
    /\ UNCHANGED <<heap, rawProxies, validProxies, mutex, callers, batch, serverVars, conn, crashed, appVars>>

\* ConcurrentCheck(proxies, workers), up to the loop: the WaitGroup and the
\* channel sem with room for `workers` tokens.
ConcurrentCheck(r, list, workers) ==
    /\ batch[r].pc = "none"
    /\ batch' = [batch EXCEPT ![r] =
                   [NoBatch EXCEPT !.pc = "loop", !.kind = "ConcurrentCheck",
                                   !.list = list, !.limit = workers]]
    /\ UNCHANGED <<heap, rawProxies, validProxies, mutex, callers, probes, serverVars, conn, crashed, appVars>>

\* A loop that starts the goroutine without sending to sem.
SpawnUnlimited(r) ==
    /\ batch[r].pc = "loop"
    /\ batch[r].i < Len(batch[r].list)
    /\ LET k == batch[r].i + 1 IN
       /\ batch' = [batch EXCEPT ![r] =
                      [batch[r] EXCEPT !.i = k, !.wg = batch[r].wg + 1,
                                       !.sem = Min(batch[r].sem + 1, batch[r].limit)]]
       /\ probes' = [probes EXCEPT ![Slot(r, k)] =
                       [NoProbe EXCEPT !.pc = "score", !.p = batch[r].list[k], !.run = r]]
    /\ UNCHANGED <<heap, rawProxies, validProxies, mutex, callers, serverVars, conn, crashed, appVars>>

\* One round of the loop of ConcurrentCheck and of TestAllProxies:
\* wg.Add(1); sem <- struct{}{} (which waits while sem is full); go func(p).
Spawn(r) ==
    /\ batch[r].pc = "loop"
    /\ batch[r].i < Len(batch[r].list)
    /\ batch[r].sem < batch[r].limit
    /\ LET k == batch[r].i + 1 IN
       /\ batch' = [batch EXCEPT ![r] =
                      [batch[r] EXCEPT !.i = k, !.wg = batch[r].wg + 1,
                                       !.sem = batch[r].sem + 1]]
       /\ probes' = [probes EXCEPT ![Slot(r, k)] =
                       [NoProbe EXCEPT !.pc = "score", !.p = batch[r].list[k], !.run = r]]
    /\ UNCHANGED <<heap, rawProxies, validProxies, mutex, callers, serverVars, conn, crashed, appVars>>

\* A goroutine of TestAllProxies that adds its candidate whatever
\* CheckConnectivityAndSpeed returned.
PromoteAlways(g) ==
    /\ probes[g].pc = "returned"
    /\ probes[g].run # 0
    /\ batch[probes[g].run].kind = "TestAllProxies"
    /\ Call(g, "AddValidProxies", ListArg(<<probes[g].p>>))

\* The goroutine of TestAllProxies after CheckConnectivityAndSpeed returned
\* nil: it calls AddValidProxies with its candidate.  (The refresh of the
\* list shown and the progress count that follow only read the pool.)
Promote(g) ==
    /\ probes[g].pc = "returned"
    /\ probes[g].run # 0
    /\ batch[probes[g].run].kind = "TestAllProxies"
    /\ probes[g].err = ""
    /\ Call(g, "AddValidProxies", ListArg(<<probes[g].p>>))

\* A goroutine that keeps its token when CheckConnectivityAndSpeed returned
\* an error.
ReleaseOnSuccess(g) ==
    /\ probes[g].pc = "returned"
    /\ probes[g].run # 0
    /\ probes[g].err = ""
    /\ LET r == probes[g].run IN
       /\ \/ batch[r].kind = "ConcurrentCheck"
          \/ callers[g].pc = "returned"
       /\ batch[r].sem > 0
       /\ batch' = [batch EXCEPT ![r].sem = batch[r].sem - 1]
    /\ probes' = [probes EXCEPT ![g].pc = "released"]
    /\ UNCHANGED <<heap, rawProxies, validProxies, mutex, callers, serverVars, conn, crashed, appVars>>

\* <-sem in the goroutine: in ConcurrentCheck after CheckConnectivityAndSpeed
\* returned, in TestAllProxies in the deferred function, after the error or
\* after AddValidProxies returned.
Release(g) ==
    /\ probes[g].pc = "returned"
    /\ probes[g].run # 0
    /\ LET r == probes[g].run IN
       /\ \/ batch[r].kind = "ConcurrentCheck"
          \/ probes[g].err # ""
          \/ callers[g].pc = "returned"
       /\ batch[r].sem > 0
       /\ batch' = [batch EXCEPT ![r].sem = batch[r].sem - 1]
    /\ probes' = [probes EXCEPT ![g].pc = "released"]
    /\ UNCHANGED <<heap, rawProxies, validProxies, mutex, callers, serverVars, conn, crashed, appVars>>

\* wg.Done() in the goroutine, which then ends.
Done(g) ==
    /\ probes[g].pc = "released"
    /\ batch' = [batch EXCEPT ![probes[g].run].wg = batch[probes[g].run].wg - 1]
    /\ probes' = [probes EXCEPT ![g].pc = "exited"]
    /\ UNCHANGED <<heap, rawProxies, validProxies, mutex, callers, serverVars, conn, crashed, appVars>>

\* wg.Wait() after the loop: it returns when the counter is zero.
Wait(r) ==
    /\ batch[r].pc = "loop"
    /\ batch[r].i = Len(batch[r].list)
    /\ batch[r].wg = 0
    /\ batch' = [batch EXCEPT ![r].pc = "returned"]
    /\ UNCHANGED <<heap, rawProxies, validProxies, mutex, callers, probes, serverVars, conn, crashed, appVars>>

\* TestAllProxies, first statement of its goroutine: GetRawProxies().
TestGetRaw(r) ==
    /\ batch[r].pc = "none"
    /\ Call(MainOf(r), "GetRawProxies", NoArg)

\* A TestAllProxies that goes from GetRawProxies to its loop without
\* clearing the valid list.
TestBeginKeepingValid(r) ==
    /\ batch[r].pc = "none"
    /\ callers[MainOf(r)].pc = "returned"
    /\ LET raw == callers[MainOf(r)].ret IN
       batch' = [batch EXCEPT ![r] =
                   IF Len(raw) = 0
                   THEN [NoBatch EXCEPT !.pc = "returned", !.kind = "TestAllProxies"]
                   ELSE [NoBatch EXCEPT !.pc = "loop", !.kind = "TestAllProxies",
                                        !.list = raw, !.limit = MaxBatch]]
    /\ callers' = [callers EXCEPT ![MainOf(r)] = IdleCaller]
    /\ UNCHANGED <<heap, rawProxies, validProxies, mutex, probes, serverVars, conn, crashed, appVars>>

\* TestAllProxies after GetRawProxies returned: it returns when the list is
\* empty, else it goes on with this list.
TestBegin(r) ==
    /\ batch[r].pc = "none"
    /\ callers[MainOf(r)].pc = "returned"
    /\ LET raw == callers[MainOf(r)].ret IN
       batch' = [batch EXCEPT ![r] =
                   IF Len(raw) = 0
                   THEN [NoBatch EXCEPT !.pc = "returned", !.kind = "TestAllProxies"]
                   ELSE [NoBatch EXCEPT !.pc = "clear", !.kind = "TestAllProxies",
                                        !.list = raw]]
    /\ callers' = [callers EXCEPT ![MainOf(r)] = IdleCaller]
    /\ UNCHANGED <<heap, rawProxies, validProxies, mutex, probes, serverVars, conn, crashed, appVars>>

\* TestAllProxies: SetValidProxies([]*proxy.Proxy{}).
TestClear(r) ==
    /\ batch[r].pc = "clear"
    /\ Call(MainOf(r), "SetValidProxies", ListArg(<<>>))

\* TestAllProxies after SetValidProxies returned: the WaitGroup and the
\* channel sem of concurrencyLimit tokens.
TestLoop(r) ==
    /\ batch[r].pc = "clear"
    /\ callers[MainOf(r)].pc = "returned"
    /\ batch' = [batch EXCEPT ![r] = [batch[r] EXCEPT !.pc = "loop", !.limit = TestLimit]]
    /\ callers' = [callers EXCEPT ![MainOf(r)] = IdleCaller]
    /\ UNCHANGED <<heap, rawProxies, validProxies, mutex, probes, serverVars, conn, crashed, appVars>>


\* The same statement when the raw list is no longer than concurrencyLimit:
\* the channel has a token for every candidate of the model's lists.
TestLoopWide(r) ==
    /\ batch[r].pc = "clear"
    /\ callers[MainOf(r)].pc = "returned"
    /\ batch' = [batch EXCEPT ![r] = [batch[r] EXCEPT !.pc = "loop", !.limit = MaxBatch]]
    /\ callers' = [callers EXCEPT ![MainOf(r)] = IdleCaller]
    /\ UNCHANGED <<heap, rawProxies, validProxies, mutex, probes, serverVars, conn, crashed, appVars>>

\* ------------------------------------------------------------ discovery
\* proxySources, scaled to one source per protocol string.
Sources == 1..NumSources
SourceProtocol(s) ==
    IF s = 1 THEN "http" ELSE IF s = 2 THEN "socks4" ELSE "socks5"
\* The []*proxy.Proxy a parser builds from the addresses it read, in order.
Parsed(as, protocol) ==
    [k \in 1..Len(as) |-> [Address |-> as[k], Protocol |-> protocol]]

\* FetchAllProxies before it is called.
NoFetch ==
    [pc |-> "none",        \* none, spawn, collect, drain, returned
     i |-> 0,              \* the sources the loop has been through
     src |-> [s \in Sources |-> [st |-> "none", list |-> <<>>]],
                           \* each source goroutine: none, running, ok, failed,
                           \* and what fetchFromSource returned to it
     wg |-> 0,             \* the counter of the WaitGroup
     proxyChan |-> <<>>,   \* the lists buffered in proxyChan
     errChan |-> <<>>,     \* the errors buffered in errChan, by source
     closed |-> FALSE,     \* both channels are closed
     seen |-> {},          \* the keys of the map seen
     allProxies |-> <<>>,
     logged |-> 0,         \* errors the last loop has logged
     ret |-> <<>>,         \* the list returned
     err |-> ""]           \* the error returned; "" stands for nil

\* The call, up to the loop over proxySources.
FetchAllProxies ==
    /\ fetch.pc = "none"
    /\ fetch' = [NoFetch EXCEPT !.pc = "spawn"]
    /\ UNCHANGED <<serverVars, conn, crashed, poolVars, checkVars, rotation>>

\* One iteration of the loop: wg.Add(1) and the go statement.
FetchSpawn ==
    /\ fetch.pc = "spawn"
    /\ fetch.i < NumSources
    /\ fetch' = [fetch EXCEPT !.i = @ + 1, !.wg = @ + 1,
                              !.src[fetch.i + 1].st = "running"]
    /\ UNCHANGED <<serverVars, conn, crashed, poolVars, checkVars, rotation>>

\* After the loop: the goroutine that waits and closes is started and the
\* caller enters its range over proxyChan.
FetchCollect ==
    /\ fetch.pc = "spawn"
    /\ fetch.i = NumSources
    /\ fetch' = [fetch EXCEPT !.pc = "collect"]
    /\ UNCHANGED <<serverVars, conn, crashed, poolVars, checkVars, rotation>>

\* The goroutine of source s: fetchFromSource returns (ok: a list, else an
\* error), the result is sent on its channel, which has room for every
\* source, and the deferred wg.Done() runs.
FetchFromSource(s, ok, as) ==
    /\ fetch.src[s].st = "running"
    /\ LET list == Parsed(as, SourceProtocol(s)) IN
       fetch' = [fetch EXCEPT
                   !.src[s] = IF ok THEN [st |-> "ok", list |-> list]
                              ELSE [st |-> "failed", list |-> <<>>],
                   !.proxyChan = IF ok THEN Append(@, list) ELSE @,
                   !.errChan = IF ok THEN @ ELSE Append(@, s),
                   !.wg = @ - 1]
    /\ UNCHANGED <<serverVars, conn, crashed, poolVars, checkVars, rotation>>

\* wg.Wait() returns in the closing goroutine; close(proxyChan), close(errChan).
FetchClose ==
    /\ fetch.pc \in {"collect", "drain"}
    /\ fetch.wg = 0
    /\ ~fetch.closed
    /\ fetch' = [fetch EXCEPT !.closed = TRUE]
    /\ UNCHANGED <<serverVars, conn, crashed, poolVars, checkVars, rotation>>

\* The inner loop over one received list: an item is appended unless its
\* Address is a key of seen.
RECURSIVE AppendUnseenItems(_, _, _)
AppendUnseenItems(all, seen, list) ==
    IF list = <<>> THEN [all |-> all, seen |-> seen]
    ELSE IF Head(list).Address \in seen
         THEN AppendUnseenItems(all, seen, Tail(list))
         ELSE AppendUnseenItems(Append(all, Head(list)),
                                seen \cup {Head(list).Address}, Tail(list))

\* The range over proxyChan: one list received, or the channel found closed
\* and empty.
FetchReceive ==
    /\ fetch.pc = "collect"
    /\ IF fetch.proxyChan # <<>>
       THEN LET r == AppendUnseenItems(fetch.allProxies, fetch.seen,
                                       Head(fetch.proxyChan)) IN
            fetch' = [fetch EXCEPT !.proxyChan = Tail(@), !.allProxies = r.all,
                                   !.seen = r.seen]
       ELSE /\ fetch.closed
            /\ fetch' = [fetch EXCEPT !.pc = "drain"]
    /\ UNCHANGED <<serverVars, conn, crashed, poolVars, checkVars, rotation>>

\* The range over errChan, which logs each error, and return allProxies, nil.
FetchReturn ==
    /\ fetch.pc = "drain"
    /\ fetch.closed
    /\ fetch' = [fetch EXCEPT !.errChan = <<>>, !.logged = Len(fetch.errChan),
                              !.pc = "returned", !.ret = fetch.allProxies,
                              !.err = ""]
    /\ UNCHANGED <<serverVars, conn, crashed, poolVars, checkVars, rotation>>

\* ------------------------------------------------------------- rotation
\* The goroutines of startRotation, and the tickers: the n-th call of
\* startRotation creates ticker n and goroutine n.  The channels made for
\* rotationStop are numbered from 1.
Rotators == 1..MaxRotations
DefaultRotationSeconds == 60
NoRotator == [pc |-> "none",   \* none, select, blocked, exited
              tk |-> 0,        \* the ticker whose C its select waits on
              ch |-> 0,        \* the channel its select waits on
              took |-> {}]     \* the tickers it has taken a tick from
\* App's rotation fields after NewApp.
NoRotation ==
    [status |-> FALSE,         \* rotationStatus
     seconds |-> DefaultRotationSeconds,
     ticker |-> 0,             \* rotationTicker, 0 = nil
     period |-> [n \in Rotators |-> 0],
     live |-> {},              \* the tickers that are not stopped
     pending |-> {},           \* the tickers with a tick buffered in C
     stop |-> 1,               \* rotationStop
     closed |-> {},            \* the channels that are closed
     started |-> 0,            \* calls of startRotation
     gs |-> [n \in Rotators |-> NoRotator],
     current |-> 0]            \* currentProxy, 0 for the initial text

\* App.startRotation on the fields r.
startRotation(r) ==
    LET n == r.started + 1 IN
    [r EXCEPT !.status = TRUE, !.ticker = n, !.period[n] = r.seconds,
              !.live = @ \cup {n}, !.started = n,
              !.gs[n] = [NoRotator EXCEPT !.pc = "select"]]

\* App.stopRotation on the fields r.  drain: Ticker.Stop discards a tick
\* that is buffered (Go 1.23 and later) or leaves it (earlier versions).
stopRotation(r, drain) ==
    [r EXCEPT !.status = FALSE,
              !.live = @ \ {r.ticker},
              !.pending = IF drain THEN @ \ {r.ticker} ELSE @,
              !.closed = @ \cup {r.stop},
              !.stop = @ + 1]

ToggleRotation(enable, drain) ==
    /\ enable => rotation.started < MaxRotations
    /\ ~enable => rotation.stop <= MaxStops
    /\ rotation' = IF enable THEN startRotation(rotation)
                   ELSE stopRotation(rotation, drain)
    /\ UNCHANGED <<serverVars, conn, crashed, poolVars, checkVars, fetch>>

SetRotationInterval(seconds, drain) ==
    /\ rotation.status => rotation.started < MaxRotations /\ rotation.stop <= MaxStops
    /\ rotation' =
         IF seconds <= 0 THEN rotation
         ELSE LET r == [rotation EXCEPT !.seconds = seconds] IN
              IF r.status THEN startRotation(stopRotation(r, drain)) ELSE r
    /\ UNCHANGED <<serverVars, conn, crashed, poolVars, checkVars, fetch>>

\* A ticker that is not stopped fires: C holds at most one tick.
Tick(n) ==
    /\ n \in rotation.live
    /\ n \notin rotation.pending
    /\ rotation' = [rotation EXCEPT !.pending = @ \cup {n}]
    /\ UNCHANGED <<serverVars, conn, crashed, poolVars, checkVars, fetch>>

\* Goroutine g enters the select: it reads a.rotationTicker and
\* a.rotationStop, as they are now, and waits on these two channels.
RotationSelect(g) ==
    /\ rotation.gs[g].pc = "select"
    /\ rotation' = [rotation EXCEPT !.gs[g].pc = "blocked",
                                    !.gs[g].tk = rotation.ticker,
                                    !.gs[g].ch = rotation.stop]
    /\ UNCHANGED <<serverVars, conn, crashed, poolVars, checkVars, fetch>>

\* case <-a.rotationTicker.C: the tick is taken, GetNextProxy("", false) is
\* called with the draw r2 and currentProxy set when it returns a candidate.
RotationTick(g, r2) ==
    /\ rotation.gs[g].pc = "blocked"
    /\ rotation.gs[g].tk \in rotation.pending
    /\ LET p == GetNextProxy(heap, validProxies, r2) IN
       rotation' = [rotation EXCEPT
                      !.pending = @ \ {rotation.gs[g].tk},
                      !.gs[g].pc = "select",
                      !.gs[g].took = @ \cup {rotation.gs[g].tk},
                      !.current = IF p = NilProxy THEN @ ELSE heap[p].Address]
    /\ UNCHANGED <<serverVars, conn, crashed, poolVars, checkVars, fetch>>

\* case <-a.rotationStop: the channel is closed, the goroutine returns.
RotationExit(g) ==
    /\ rotation.gs[g].pc = "blocked"
    /\ rotation.gs[g].ch \in rotation.closed
    /\ rotation' = [rotation EXCEPT !.gs[g].pc = "exited"]
    /\ UNCHANGED <<serverVars, conn, crashed, poolVars, checkVars, fetch>>

\* -------------------------------------------------------- Start, Stop
\* The error returned by Server.Start: "" stands for nil.
StartError(isRunning, bindOk) ==
    IF isRunning THEN "server is already running"
    ELSE IF ~bindOk THEN "failed to listen"
    ELSE ""

\* The error returned by Server.Stop.
StopError(isRunning) == IF ~isRunning THEN "server is not running" ELSE ""

\* A Start that goes on after net.Listen has failed.
StartIgnoringListenError(bindOk) ==
    /\ ~crashed
    /\ IF running
       THEN UNCHANGED <<running, listener, lsnOpen, loops>>
       ELSE /\ listener < MaxStarts
            /\ listener' = listener + 1
            /\ lsnOpen' = IF bindOk THEN lsnOpen \cup {listener + 1} ELSE lsnOpen
            /\ running' = TRUE
            /\ loops' = [loops EXCEPT ![listener + 1] = [pc |-> "top", lsn |-> 0]]
    /\ UNCHANGED <<conn, crashed, poolVars, checkVars, appVars>>
\* Server.Start.  bindOk: net.Listen succeeds.
Start(bindOk) ==
    /\ ~crashed
    /\ IF running
       THEN UNCHANGED <<running, listener, lsnOpen, loops>>
       ELSE IF ~bindOk
       THEN UNCHANGED <<running, listener, lsnOpen, loops>>
       ELSE /\ listener < MaxStarts
            /\ listener' = listener + 1
            /\ lsnOpen' = lsnOpen \cup {listener + 1}
            /\ running' = TRUE
            /\ loops' = [loops EXCEPT ![listener + 1] = [pc |-> "top", lsn |-> 0]]
    /\ UNCHANGED <<conn, crashed, poolVars, checkVars, appVars>>

\* A Stop that also ends the handlers of the open connections.
StopClosingConnections ==
    /\ ~crashed
    /\ IF ~running
       THEN UNCHANGED <<running, lsnOpen, conn>>
       ELSE /\ running' = FALSE
            /\ lsnOpen' = lsnOpen \ {listener}
            /\ conn' = [c \in Conns |->
                          IF conn[c].pc \in {"auth", "connect", "select", "dial", "relay"}
                          THEN [conn[c] EXCEPT !.pc = "closed", !.clientOpen = FALSE]
                          ELSE conn[c]]
    /\ UNCHANGED <<listener, loops, crashed, poolVars, checkVars, appVars>>
\* Server.Stop
Stop ==
    /\ ~crashed
    /\ IF ~running
       THEN UNCHANGED <<running, lsnOpen>>
       ELSE /\ running' = FALSE
            /\ lsnOpen' = lsnOpen \ {listener}
    /\ UNCHANGED <<listener, loops, conn, crashed, poolVars, checkVars, appVars>>

\* What the callers know after the call `op` has returned `err`.
Returned(op, err) ==
    [op |-> op, err |-> err, ok |-> IF err = "" THEN op ELSE lastCall.ok]

\* A call of Start whose caller keeps the error it returns.
StartCall(bindOk) ==
    /\ Start(bindOk)
    /\ lastCall' = Returned("Start", StartError(running, bindOk))

\* A call of Stop whose caller keeps the error it returns.
StopCall ==
    /\ Stop
    /\ lastCall' = Returned("Stop", StopError(running))

\* ------------------------------------------------- acceptConnections
\* The loop evaluates s.listener and blocks in its Accept.
LoopCall(l) ==
    /\ ~crashed
    /\ loops[l].pc = "top"
    /\ loops' = [loops EXCEPT ![l] = [pc |-> "blocked", lsn |-> listener]]
    /\ UNCHANGED <<running, listener, lsnOpen, lastCall, conn, crashed, poolVars, checkVars, appVars>>

NextConn == 1 + Cardinality({c \in Conns : conn[c].pc # "idle"})

Accepted(stream) ==
    [Goto(IdleConn, "auth") EXCEPT !.stream = stream, !.inbuf = stream, !.clientOpen = TRUE]

\* Accept returns a connection whose client sends `stream`; the loop starts
\* its handler goroutine and goes round.
AcceptOk(l, stream) ==
    /\ ~crashed
    /\ loops[l].pc = "blocked"
    /\ loops[l].lsn \in lsnOpen
    /\ NextConn \in Conns
    /\ conn' = [conn EXCEPT ![NextConn] = Accepted(stream)]
    /\ loops' = [loops EXCEPT ![l].pc = "top"]
    /\ UNCHANGED <<running, listener, lsnOpen, lastCall, crashed, poolVars, checkVars, appVars>>

\* What the loop does with an error of Accept, given the s.running it reads.
AfterAcceptError(isRunning) == IF ~isRunning THEN "exited" ELSE "top"

\* Accept returns an error: the listener was closed, or (spurious) the
\* system call failed.  The loop returns when it reads running = false.
AcceptErr(l, spurious) ==
    /\ ~crashed
    /\ loops[l].pc = "blocked"
    /\ loops[l].lsn \notin lsnOpen \/ spurious
    /\ loops' = [loops EXCEPT ![l].pc = AfterAcceptError(running)]
    /\ UNCHANGED <<running, listener, lsnOpen, lastCall, conn, crashed, poolVars, checkVars, appVars>>

\* --------------------------------------------------- handleConnection
Active(r) == r.pc \in {"auth", "connect", "select", "dial", "relay"}

\* A handler end that runs the first deferred Close only.
CloseConnLeakUpstream(r) ==
    [Goto(r, "closed") EXCEPT !.clientOpen = FALSE]
\* The deferred clientConn.Close() and, once registered, upstreamConn.Close().
CloseConn(r) ==
    [Goto(r, "closed") EXCEPT
        !.clientOpen = FALSE,
        !.upstream = IF r.upstream = "open" THEN "closed" ELSE r.upstream]

\* The process exits: the operating system closes the sockets of a goroutine
\* that did not end by itself.
Kill(r) ==
    [Goto(r, "killed") EXCEPT
        !.clientOpen = FALSE,
        !.upstream = IF r.upstream = "open" THEN "closed" ELSE r.upstream]

\* A handler that does not look at the error of socks5Auth.
AfterAuthIgnoringError(r, res) ==
    Goto([r EXCEPT !.inbuf = res.rest, !.sent = r.sent \o res.out,
                   !.writeErr = res.werr], "connect")
\* handleConnection after socks5Auth returned res.
AfterAuth(r, res) ==
    LET r1 == [r EXCEPT !.inbuf = res.rest, !.sent = r.sent \o res.out,
                        !.writeErr = res.werr] IN
    IF res.err THEN CloseConn(r1) ELSE Goto(r1, "connect")

Auth(c, wok) ==
    /\ ~crashed
    /\ conn[c].pc = "auth"
    /\ conn' = [conn EXCEPT ![c] = AfterAuth(conn[c], socks5Auth(conn[c].inbuf, wok))]
    /\ UNCHANGED <<serverVars, crashed, poolVars, checkVars, appVars>>

\* A handler that does not look at the error of socks5Connect.
AfterConnectIgnoringError(r, res) ==
    Goto([r EXCEPT !.inbuf = res.rest, !.sent = r.sent \o res.out, !.target = res.host,
                   !.writeErr = res.werr], "select")
\* handleConnection after socks5Connect returned res without a panic.
AfterConnect(r, res) ==
    LET r1 == [r EXCEPT !.inbuf = res.rest, !.sent = r.sent \o res.out,
                        !.target = res.host, !.writeErr = res.werr] IN
    IF res.err THEN CloseConn(r1) ELSE Goto(r1, "select")

\* A panic in the handler of connection c: its deferred Close runs, then the
\* runtime ends the process, and with it every other goroutine.
Panic(c) ==
    /\ crashed' = TRUE
    /\ conn' = [d \in Conns |->
                  IF d = c THEN CloseConn(conn[d])
                  ELSE IF Active(conn[d]) THEN Kill(conn[d]) ELSE conn[d]]
    /\ loops' = [l \in Loops |->
                  IF loops[l].pc \in {"top", "blocked"}
                  THEN [loops[l] EXCEPT !.pc = "killed"] ELSE loops[l]]
    /\ lsnOpen' = {}
    /\ UNCHANGED <<running, listener, lastCall, poolVars, checkVars, appVars>>

Connect(c, wok) ==
    /\ ~crashed
    /\ conn[c].pc = "connect"
    /\ LET res == socks5Connect(conn[c].inbuf, wok) IN
       IF res.panic
       THEN Panic(c)
       ELSE /\ conn' = [conn EXCEPT ![c] = AfterConnect(conn[c], res)]
            /\ UNCHANGED <<serverVars, crashed, poolVars, checkVars, appVars>>

\* A handler that asks the pool again when GetNextProxy returns nil.
AfterSelectRetrying(r, p) ==
    LET r1 == [r EXCEPT !.proxy = p, !.selects = @ + 1] IN
    IF p = NilProxy THEN r1 ELSE Goto(r1, "dial")
\* handleConnection after GetNextProxy returned p.
AfterSelect(r, p) ==
    LET r1 == [r EXCEPT !.proxy = p, !.selects = @ + 1] IN
    IF p = NilProxy THEN CloseConn(r1) ELSE Goto(r1, "dial")

Select(c, r2) ==
    /\ ~crashed
    /\ conn[c].pc = "select"
    /\ conn' = [conn EXCEPT ![c] = AfterSelect(conn[c], GetNextProxy(heap, validProxies, r2))]
    /\ UNCHANGED <<serverVars, crashed, poolVars, checkVars, appVars>>

\* A dialUpstream without the direct dial for http and https candidates.
dialUpstreamNoFallback(p, ctorOk, netOk) ==
    IF ctorOk THEN [ok |-> netOk, via |-> "socks5"]
    ELSE [ok |-> FALSE, via |-> "none"]

\* Server.dialUpstream.  ctorOk: xproxy.SOCKS5 returns a dialer; netOk: the
\* dial that is then made succeeds.
dialUpstream(p, ctorOk, netOk) ==
    IF ctorOk THEN [ok |-> netOk, via |-> "socks5"]
    ELSE IF p.Protocol \in {"http", "https"} THEN [ok |-> netOk, via |-> "direct"]
    ELSE [ok |-> FALSE, via |-> "none"]

\* A handler that relays whatever dialUpstream returned.
AfterDialIgnoringError(r, d, up) ==
    [Goto([r EXCEPT !.dials = @ + 1, !.via = d.via, !.dialOk = d.ok], "relay") EXCEPT
        !.upstream = "open", !.upbuf = up, !.c2u = "copying", !.u2c = "copying"]
\* handleConnection after dialUpstream returned d; on success forwardData
\* starts its two copy goroutines.  up: what the upstream will send.
AfterDial(r, d, up) ==
    LET r1 == [r EXCEPT !.dials = @ + 1, !.via = d.via, !.dialOk = d.ok] IN
    IF ~d.ok THEN CloseConn(r1)
    ELSE [Goto(r1, "relay") EXCEPT
             !.upstream = "open", !.upbuf = up, !.c2u = "copying", !.u2c = "copying"]

\* A handler that counts a failed dial against the candidate it chose.
DialCountingFailure(c, ctorOk, netOk, up) ==
    /\ ~crashed
    /\ conn[c].pc = "dial"
    /\ LET d == dialUpstream(heap[conn[c].proxy], ctorOk, netOk) IN
       /\ conn' = [conn EXCEPT ![c] = AfterDial(conn[c], d, up)]
       /\ heap' = IF d.ok THEN heap
                  ELSE [heap EXCEPT ![conn[c].proxy].FailCount = @ + 1]
    /\ UNCHANGED <<serverVars, crashed, rawProxies, validProxies, mutex, callers, checkVars, appVars>>

Dial(c, ctorOk, netOk, up) ==
    /\ ~crashed
    /\ conn[c].pc = "dial"
    /\ conn' = [conn EXCEPT ![c] =
                  AfterDial(conn[c], dialUpstream(heap[conn[c].proxy], ctorOk, netOk), up)]
    /\ UNCHANGED <<serverVars, crashed, poolVars, checkVars, appVars>>

\* ---------------------------------------------------------- forwardData
\* One step of io.Copy(target, client) and what follows it: a byte is
\* copied, or the copy ends (end of stream, or ioErr: a read or write error)
\* and the goroutine half-closes the upstream and signals the wait group.
ClientToUpstream(r, ioErr) ==
    IF r.inbuf # <<>> /\ ~ioErr
    THEN [r EXCEPT !.inbuf = Tail(r.inbuf), !.upRecv = Append(r.upRecv, Head(r.inbuf))]
    ELSE [r EXCEPT !.c2u = "done", !.upWriteClosed = TRUE]

\* The same for io.Copy(client, target).
UpstreamToClient(r, ioErr) ==
    IF r.upbuf # <<>> /\ ~ioErr
    THEN [r EXCEPT !.upbuf = Tail(r.upbuf), !.down = Append(r.down, Head(r.upbuf))]
    ELSE [r EXCEPT !.u2c = "done", !.cliWriteClosed = TRUE]

CopyUp(c, ioErr) ==
    /\ ~crashed
    /\ conn[c].pc = "relay"
    /\ conn[c].c2u = "copying"
    /\ conn' = [conn EXCEPT ![c] = ClientToUpstream(conn[c], ioErr)]
    /\ UNCHANGED <<serverVars, crashed, poolVars, checkVars, appVars>>

CopyDown(c, ioErr) ==
    /\ ~crashed
    /\ conn[c].pc = "relay"
    /\ conn[c].u2c = "copying"
    /\ conn' = [conn EXCEPT ![c] = UpstreamToClient(conn[c], ioErr)]
    /\ UNCHANGED <<serverVars, crashed, poolVars, checkVars, appVars>>

\* A wait that ends with the first copy.
WaitReturnsOnFirstDone(r) == r.c2u = "done" \/ r.u2c = "done"
\* wg.Wait() returns when both goroutines called Done.
WaitReturns(r) == r.c2u = "done" /\ r.u2c = "done"

\* forwardData returns and handleConnection ends: the deferred Close calls.
RelayDone(c) ==
    /\ ~crashed
    /\ conn[c].pc = "relay"
    /\ WaitReturns(conn[c])
    /\ conn' = [conn EXCEPT ![c] = CloseConn(conn[c])]
    /\ UNCHANGED <<serverVars, crashed, poolVars, checkVars, appVars>>

\* ------------------------------------------------------- client input
StdGreeting == <<5, 1, 0>>
IPv4Request(a, b, c, d, hi, lo) == <<5, 1, 0, 1, a, b, c, d, hi, lo>>
DomainRequest(dom, hi, lo) == <<5, 1, 0, 3, Len(dom)>> \o dom \o <<hi, lo>>

Payload(n) == Fill(n, 170)
Payloads == {Payload(n) : n \in 0..MaxPayload}

ExampleCom == <<101, 120, 97, 109, 112, 108, 101, 46, 99, 111, 109>>
ExampleIPv4 == IPv4Request(93, 184, 216, 34, 0, 80)

\* The streams of the multi-connection specification: a bad version, a
\* domain length of 255, and a good IPv4 request followed by payload.
ServerStreams ==
    {<<4, 1, 0>>,
     StdGreeting \o <<5, 1, 0, 3, 255>>,
     StdGreeting \o ExampleIPv4 \o Payload(MaxPayload)}
ServerUpstreamData == {Payload(MaxPayload)}

\* The streams of the single-connection specification.
OctetVals == {0, 9, 100, 255}
PortBytes == {<<0, 0>>, <<0, 80>>, <<1, 187>>, <<255, 255>>}
DomainBytes == {97, Dot, Colon}
MethodVals == {0, 2}

Greetings ==
    {<<v, Len(m)>> \o m : v \in {4, 5}, m \in SeqsUpTo(MethodVals, 2) \cup {Fill(255, 2)}}
    \cup {<<5, 2, 0>>, <<5, 255>> \o Fill(254, 2)}

IPv4Requests ==
    {IPv4Request(a, b, c, d, pt[1], pt[2]) :
        a \in OctetVals, b \in OctetVals, c \in OctetVals, d \in OctetVals, pt \in PortBytes}
    \cup {ExampleIPv4}

Domains ==
    SeqsUpTo(DomainBytes, MaxDomainLen) \cup {ExampleCom}
    \cup {Fill(n, 97) : n \in {253, 254, 255}}

DomainRequests == {DomainRequest(dom, pt[1], pt[2]) : dom \in Domains, pt \in PortBytes}

BadHeaders ==
    {<<v, cmd, 0, at>> \o Fill(18, 1) :
        v \in {4, 5}, cmd \in {1, 2, 3}, at \in {0, 1, 3, 4, 255}}
    \ {<<5, 1, 0, at>> \o Fill(18, 1) : at \in {1, 3}}

ProtoStreams ==
    Prefixes(StdGreeting \o ExampleIPv4)
    \cup Prefixes(StdGreeting \o DomainRequest(ExampleCom, 1, 187))
    \cup {g \o ExampleIPv4 : g \in Greetings}
    \cup {StdGreeting \o q : q \in IPv4Requests \cup DomainRequests \cup BadHeaders}
    \cup {StdGreeting \o <<5, 1, 0, 3, 255>>, StdGreeting \o <<5, 1, 0, 3, 254>> \o Fill(255, 97)}
    \cup {StdGreeting \o ExampleIPv4 \o p : p \in Payloads}

UpstreamData == Payloads

\* ------------------------------------------------------ specifications
Init ==
    /\ running = FALSE
    /\ listener = 0
    /\ lsnOpen = {}
    /\ loops = [l \in Loops |-> [pc |-> "none", lsn |-> 0]]
    /\ conn = [c \in Conns |-> IdleConn]
    /\ crashed = FALSE
    /\ heap = [i \in ProxyIds |-> InitProxy(i)]
    /\ rawProxies = <<>>
    /\ validProxies = <<>>
    /\ lastCall = NoCall
    /\ mutex = FreeMutex
    /\ callers = [g \in Callers |-> IdleCaller]
    /\ batch = [r \in Runs |-> NoBatch]
    /\ probes = [w \in Workers |-> NoProbe]
    /\ fetch = NoFetch
    /\ rotation = NoRotation

\* The gateway with several connections.
Next ==
    \/ \E b \in BOOLEAN : Start(b) /\ UNCHANGED lastCall
    \/ Stop /\ UNCHANGED lastCall
    \/ \E l \in Loops : LoopCall(l)
    \/ \E l \in Loops, s \in ServerStreams : AcceptOk(l, s)
    \/ \E l \in Loops, sp \in BOOLEAN : AcceptErr(l, sp)
    \/ \E c \in Conns, wok \in BOOLEAN : Auth(c, wok)
    \/ \E c \in Conns, wok \in BOOLEAN : Connect(c, wok)
    \/ \E c \in Conns, r2 \in Draws(heap, validProxies) : Select(c, r2)
    \/ \E c \in Conns, ctorOk \in BOOLEAN, netOk \in BOOLEAN, up \in ServerUpstreamData :
          Dial(c, ctorOk, netOk, up)
    \/ \E c \in Conns, e \in BOOLEAN : CopyUp(c, e)
    \/ \E c \in Conns, e \in BOOLEAN : CopyDown(c, e)
    \/ \E c \in Conns : RelayDone(c)
    \/ \E ps \in PoolChoices : SetValidProxies(ps)

Spec == Init /\ [][Next]_vars

\* The handshake of one connection, over the enumerated client inputs.
InitProto ==
    /\ running = FALSE
    /\ listener = 0
    /\ lsnOpen = {}
    /\ loops = [l \in Loops |-> [pc |-> "none", lsn |-> 0]]
    /\ conn = [c \in Conns |-> IdleConn]
    /\ crashed = FALSE
    /\ heap = [i \in ProxyIds |-> InitProxy(i)]
    /\ rawProxies = <<>>
    /\ validProxies \in PoolChoices
    /\ lastCall = NoCall
    /\ mutex = FreeMutex
    /\ callers = [g \in Callers |-> IdleCaller]
    /\ batch = [r \in Runs |-> NoBatch]
    /\ probes = [w \in Workers |-> NoProbe]
    /\ fetch = NoFetch
    /\ rotation = NoRotation

NextProto ==
    \/ /\ ~running
       /\ Start(TRUE)
       /\ UNCHANGED lastCall
    \/ LoopCall(1)
    \/ /\ NextConn = 1
       /\ \E s \in ProtoStreams : AcceptOk(1, s)
    \/ \E wok \in BOOLEAN : Auth(1, wok)
    \/ \E wok \in BOOLEAN : Connect(1, wok)
    \/ \E r2 \in Draws(heap, validProxies) : Select(1, r2)
    \/ \E ctorOk \in BOOLEAN, netOk \in BOOLEAN, up \in UpstreamData :
          Dial(1, ctorOk, netOk, up)
    \/ \E e \in BOOLEAN : CopyUp(1, e)
    \/ \E e \in BOOLEAN : CopyDown(1, e)
    \/ RelayDone(1)

SpecProto == InitProto /\ [][NextProto]_vars

\* The next step of the handler goroutine of connection c, whatever the
\* client, the upstream and the random source do.
HandlerStep(c) ==
    \/ \E wok \in BOOLEAN : Auth(c, wok)
    \/ \E wok \in BOOLEAN : Connect(c, wok)
    \/ \E r2 \in Draws(heap, validProxies) : Select(c, r2)
    \/ \E ctorOk \in BOOLEAN, netOk \in BOOLEAN, up \in ServerUpstreamData :
          Dial(c, ctorOk, netOk, up)
    \/ \E e \in BOOLEAN : CopyUp(c, e)
    \/ \E e \in BOOLEAN : CopyDown(c, e)
    \/ RelayDone(c)

\* One connection, with the server started and stopped and the valid set
\* replaced while the connection is served; the callers of Start and Stop
\* keep what is returned.  The client sends a bad version, a domain length
\* of 255, or a good IPv4 request and one byte; the upstream sends one byte.
ServeStreams ==
    {<<4, 1, 0>>,
     StdGreeting \o <<5, 1, 0, 3, 255>>,
     StdGreeting \o ExampleIPv4 \o Payload(1)}
ServeUpstreamData == {Payload(1)}

NextServe ==
    \/ \E b \in BOOLEAN : StartCall(b)
    \/ StopCall
    \/ \E l \in Loops : LoopCall(l)
    \/ /\ NextConn = 1
       /\ \E l \in Loops, s \in ServeStreams : AcceptOk(l, s)
    \/ \E l \in Loops, sp \in BOOLEAN : AcceptErr(l, sp)
    \/ \E wok \in BOOLEAN : Auth(1, wok)
    \/ \E wok \in BOOLEAN : Connect(1, wok)
    \/ \E r2 \in Draws(heap, validProxies) : Select(1, r2)
    \/ \E ctorOk \in BOOLEAN, netOk \in BOOLEAN, up \in ServeUpstreamData :
          Dial(1, ctorOk, netOk, up)
    \/ \E e \in BOOLEAN : CopyUp(1, e)
    \/ \E e \in BOOLEAN : CopyDown(1, e)
    \/ RelayDone(1)
    \/ \E ps \in PoolChoices : SetValidProxies(ps)

SpecServe == Init /\ [][NextServe]_vars

\* ------------------------------------------------ pool specifications
\* The state after NewRotator, with the candidates h on the heap and the
\* lists raw and valid in the pool; the server is not started.
InitPool(h, raw, valid) ==
    /\ running = FALSE
    /\ listener = 0
    /\ lsnOpen = {}
    /\ loops = [l \in Loops |-> [pc |-> "none", lsn |-> 0]]
    /\ conn = [c \in Conns |-> IdleConn]
    /\ crashed = FALSE
    /\ heap = h
    /\ rawProxies = raw
    /\ validProxies = valid
    /\ lastCall = NoCall
    /\ mutex = FreeMutex
    /\ callers = [g \in Callers |-> IdleCaller]
    /\ batch = [r \in Runs |-> NoBatch]
    /\ probes = [w \in Workers |-> NoProbe]
    /\ fetch = NoFetch
    /\ rotation = NoRotation

\* The pool's lists and the lists passed to it.
Lists == SeqsUpTo(CandIds, MaxListLen)
ShortLists == SeqsUpTo(CandIds, MaxListLen - 1)
Latencies == {1, 4}

\* One caller that reads the pool, keeps what it got, and assigns a field of
\* a candidate it holds before it reads again.
InitAlias ==
    InitPool([p \in CandIds |-> Candidate(p, 1, 10, 0, 0)], <<>>, <<>>)

NextAlias ==
    \/ \E l \in ShortLists : Call(1, "SetRawProxies", ListArg(l))
    \/ \E l \in ShortLists : Call(1, "SetValidProxies", ListArg(l))
    \/ \E op \in {"GetRawProxies", "GetValidProxies", "GetNextProxy"} : Call(1, op, NoArg)
    \/ Call(1, "GetFilteredAndSortedProxies", NumArg(-1, -1))
    \/ SetRawProxies(1)
    \/ SetValidProxiesBody(1)
    \/ GetRawProxies(1)
    \/ GetValidProxies(1)
    \/ GetFilteredAndSortedProxies(1)
    \/ \E r2 \in Draws(heap, validProxies) : GetNextProxyBody(1, r2)
    \/ Unlock(1, TRUE)
    \/ \E p \in CandIds, l \in Latencies : SetLatency(1, p, l)
    \/ Drop(1)

SpecAlias == InitAlias /\ [][NextAlias]_vars

\* Concurrent callers of AddRawProxies.  The candidates share NumAddresses
\* addresses, the raw list starts without a duplicate address.
AddressOf(p) == ((p - 1) % NumAddresses) + 1
AddRawHeap == [p \in CandIds |-> Candidate(AddressOf(p), 1, 10, 0, 0)]

NoDuplicateAddress(h, ps) ==
    \A j, k \in 1..Len(ps) : j # k => h[ps[j]].Address # h[ps[k]].Address

InitAddRaw ==
    \E raw \in {l \in ShortLists : NoDuplicateAddress(AddRawHeap, l)} :
        InitPool(AddRawHeap, raw, <<>>)

NextAddRaw ==
    \/ \E g \in Callers, l \in ShortLists :
          /\ Len(rawProxies) <= MaxListLen
          /\ Call(g, "AddRawProxies", ListArg(l))
    \/ \E g \in Callers : AddRawProxies(g)
    \/ \E g \in Callers : Unlock(g, FALSE)

SpecAddRaw == InitAddRaw /\ [][NextAddRaw]_vars

\* Every caller calls AddValidProxies once, with one candidate, on a valid
\* list of any length below the bound; nothing else changes the pool.
InitAddValid ==
    \E valid \in ShortLists :
        InitPool([p \in CandIds |-> Candidate(p, 1, 10, 0, 0)], <<>>, valid)

NextAddValid ==
    \/ \E g \in Callers, p \in CandIds : Call(g, "AddValidProxies", ListArg(<<p>>))
    \/ \E g \in Callers : AddValidProxies(g)
    \/ \E g \in Callers : Unlock(g, TRUE)

SpecAddValid == InitAddValid /\ [][NextAddValid]_vars

\* Concurrent callers of all the operations of the pool.
PoolHeap ==
    [p \in CandIds |->
        Candidate(AddressOf(p), IF p % 2 = 1 THEN 4 ELSE 1, 10 * (p % 3),
                  IF p = 2 THEN MaxFailCount ELSE 0, p % 2)]

PoolLists == {<<>>, <<1>>, <<2, 1>>, <<3, 1>>}
MaxAges == {0, 1}
Clock == {1, 2}
MaxLatencies == {-1, 1}
MinSpeeds == {-1, 10}

InitAll == InitPool(PoolHeap, <<>>, <<>>)

NextAll ==
    \/ \E g \in Callers, l \in PoolLists : Call(g, "SetRawProxies", ListArg(l))
    \/ \E g \in Callers, l \in PoolLists : Call(g, "AddRawProxies", ListArg(l))
    \/ \E g \in Callers, l \in PoolLists : Call(g, "SetValidProxies", ListArg(l))
    \/ \E g \in Callers, l \in PoolLists :
          /\ Len(validProxies) + Len(l) <= MaxListLen
          /\ Call(g, "AddValidProxies", ListArg(l))
    \/ \E g \in Callers, m \in MaxAges, t \in Clock :
          Call(g, "CleanupProxies", NumArg(m, t))
    \/ \E g \in Callers, m \in MaxLatencies, v \in MinSpeeds :
          Call(g, "GetFilteredAndSortedProxies", NumArg(m, v))
    \/ \E g \in Callers,
          op \in {"GetRawProxies", "GetValidProxies", "GetValidProxyCount", "GetNextProxy"} :
          Call(g, op, NoArg)
    \/ \E g \in Callers : SetRawProxies(g)
    \/ \E g \in Callers : AddRawProxies(g)
    \/ \E g \in Callers : GetRawProxies(g)
    \/ \E g \in Callers : SetValidProxiesBody(g)
    \/ \E g \in Callers : AddValidProxies(g)
    \/ \E g \in Callers : GetValidProxies(g)
    \/ \E g \in Callers : GetValidProxyCount(g)
    \/ \E g \in Callers : CleanupProxies(g)
    \/ \E g \in Callers : GetFilteredAndSortedProxies(g)
    \/ \E g \in Callers, r2 \in Draws(heap, validProxies) : GetNextProxyBody(g, r2)
    \/ \E g \in Callers : Unlock(g, FALSE)

SpecAll == InitAll /\ [][NextAll]_vars

\* One caller of CleanupProxies, on every valid list up to the bound over
\* candidates of every fail count and age around the two limits.
FailCounts == {MaxFailCount - 1, MaxFailCount}
CheckTimes == {0, 1}
CleanupCandidates ==
    {Candidate(1, 1, 10, f, t) : f \in FailCounts, t \in CheckTimes}

InitCleanup ==
    \E h \in [CandIds -> CleanupCandidates], valid \in Lists :
        InitPool(h, <<1, 2>>, valid)

NextCleanup ==
    \/ \E m \in MaxAges, t \in Clock : Call(1, "CleanupProxies", NumArg(m, t))
    \/ CleanupProxies(1)
    \/ Unlock(1, FALSE)

SpecCleanup == InitCleanup /\ [][NextCleanup]_vars

\* One caller of GetFilteredAndSortedProxies, on every valid list up to the
\* bound over candidates of every latency and speed around the two limits.
Speeds == {0, 10}
FilterCandidates ==
    {Candidate(1, l, s, 0, 0) : l \in Latencies, s \in Speeds}

InitFilter ==
    \E h \in [CandIds -> FilterCandidates], valid \in Lists :
        InitPool(h, <<>>, valid)

NextFilter ==
    \/ \E m \in MaxLatencies, v \in MinSpeeds :
          Call(1, "GetFilteredAndSortedProxies", NumArg(m, v))
    \/ GetFilteredAndSortedProxies(1)
    \/ Unlock(1, FALSE)

SpecFilter == InitFilter /\ [][NextFilter]_vars

\* Callers of GetNextProxy, on every valid list up to the bound (a candidate
\* may be listed twice) over candidates of three different weights, with
\* every draw of the random source.
SelectHeap ==
    [p \in CandIds |->
        Candidate(p, IF p % 3 = 1 THEN 4 ELSE IF p % 3 = 2 THEN 1 ELSE 9,
                  10 * ((p + 2) % 3), 0, 0)]

InitSelect ==
    \E raw \in {<<>>, <<1, 2>>}, valid \in Lists : InitPool(SelectHeap, raw, valid)

NextSelect ==
    \/ \E g \in Callers : Call(g, "GetNextProxy", NoArg)
    \/ \E g \in Callers, r2 \in Draws(heap, validProxies) : GetNextProxyBody(g, r2)
    \/ \E g \in Callers : Unlock(g, FALSE)

SpecSelect == InitSelect /\ [][NextSelect]_vars

\* Callers of AddValidProxies with lists of any length below the bound, over
\* candidates that share addresses; a candidate may be in the argument twice
\* and in the valid list already.
InitAppend ==
    \E valid \in ShortLists : InitPool(AddRawHeap, <<>>, valid)

NextAppend ==
    \/ \E g \in Callers, l \in ShortLists :
          /\ Len(validProxies) + Len(l) <= MaxListLen
          /\ Call(g, "AddValidProxies", ListArg(l))
    \/ \E g \in Callers : AddValidProxies(g)
    \/ \E g \in Callers : Unlock(g, FALSE)

SpecAppend == InitAppend /\ [][NextAppend]_vars

\* The state with the candidates h, the pool lists raw and valid, the runs b
\* and the goroutines pr; the server is not started.
InitCheck(h, raw, valid, b, pr) ==
    /\ running = FALSE
    /\ listener = 0
    /\ lsnOpen = {}
    /\ loops = [l \in Loops |-> [pc |-> "none", lsn |-> 0]]
    /\ conn = [c \in Conns |-> IdleConn]
    /\ crashed = FALSE
    /\ heap = h
    /\ rawProxies = raw
    /\ validProxies = valid
    /\ lastCall = NoCall
    /\ mutex = FreeMutex
    /\ callers = [g \in Goroutines |-> IdleCaller]
    /\ batch = b
    /\ probes = pr
    /\ fetch = NoFetch
    /\ rotation = NoRotation

\* The candidates of the validation specifications: the first as it is
\* created, the second as a stored file can give it, the third with a
\* protocol createProxyClient has no case for, the others in upper case.
ValidateHeap ==
    [p \in CandIds |->
        [Address |-> p,
         Protocol |-> IF p = 1 THEN "socks5" ELSE IF p = 2 THEN "http"
                      ELSE IF p = 3 THEN "ftp" ELSE "SOCKS5",
         Latency |-> IF p = 2 THEN 4 ELSE 0,
         Speed |-> IF p = 2 THEN 10 ELSE 0,
         FailCount |-> IF p = 2 THEN 1 ELSE 0,
         LastChecked |-> 0,
         Anonymity |-> IF p = 2 THEN "Anonymous" ELSE "",
         Score |-> 0]]

MeasuredSpeeds == {10, 20}
ForwardedFors == {"", "10.0.0.1"}

\* One goroutine that calls CheckConnectivityAndSpeed on one candidate, again
\* and again, with every outcome of the two probes.
InitValidate ==
    \E p \in CandIds :
        InitCheck(ValidateHeap, <<1, 2>>, <<2>>, [r \in Runs |-> NoBatch],
                  [w \in Workers |-> IF w = 1 THEN [NoProbe EXCEPT !.pc = "score", !.p = p]
                                     ELSE NoProbe])

NextValidate ==
    \/ \E now \in Clock : CalculateScore(1, now)
    \/ \E ok \in BOOLEAN, l \in Latencies : Reach(1, ok, l)
    \/ \E dec \in BOOLEAN, ff \in ForwardedFors : Decode(1, Classify(dec, ff))
    \/ \E ok \in BOOLEAN, s \in MeasuredSpeeds : CheckSpeed(1, ok, s)
    \/ Revalidate(1)

SpecValidate == InitValidate /\ [][NextValidate]_vars

\* The lists handed to ConcurrentCheck: of every length up to the bound.
BatchList(n) == [k \in 1..n |-> ((k - 1) % NumCandidates) + 1]
BatchLists == {BatchList(n) : n \in 0..MaxBatch}

\* The steps of a goroutine started by a run, with one value for each
\* measurement.
ProbeStep(g) ==
    \/ CalculateScore(g, 1)
    \/ \E ok \in BOOLEAN : Reach(g, ok, 1)
    \/ Decode(g, Classify(TRUE, ""))
    \/ \E ok \in BOOLEAN : CheckSpeed(g, ok, 10)
    \/ Release(g)
    \/ Done(g)

\* The steps of a goroutine of TestAllProxies that adds its candidate.
PromoteStep(g) ==
    \/ Promote(g)
    \/ AddValidProxies(g)
    \/ Unlock(g, TRUE)

\* The steps of TestAllProxies itself.
TestStep(r) ==
    \/ TestGetRaw(r)
    \/ GetRawProxies(MainOf(r))
    \/ Unlock(MainOf(r), TRUE)
    \/ TestBegin(r)
    \/ TestClear(r)
    \/ SetValidProxiesBody(MainOf(r))
    \/ TestLoop(r)
    \/ Spawn(r)
    \/ Wait(r)

\* One run, of ConcurrentCheck on a list of any length with any limit or of
\* TestAllProxies on a raw list longer than its limit.
InitLimit ==
    InitCheck(ValidateHeap, <<1, 2>>, <<2>>, [r \in Runs |-> NoBatch],
              [w \in Workers |-> NoProbe])

NextLimit ==
    \/ \E list \in BatchLists, workers \in 1..MaxParallel : ConcurrentCheck(1, list, workers)
    \/ TestStep(1)
    \/ \E g \in Workers : ProbeStep(g)
    \/ \E g \in Workers : PromoteStep(g)

SpecLimit == InitLimit /\ [][NextLimit]_vars

\* One run of ConcurrentCheck, on a list of any length up to the bound with
\* any limit, every probe succeeding or failing.
NextBatch ==
    \/ \E list \in BatchLists, workers \in 1..MaxParallel : ConcurrentCheck(1, list, workers)
    \/ Spawn(1)
    \/ Wait(1)
    \/ \E g \in Workers : ProbeStep(g)

SpecBatch == InitLimit /\ [][NextBatch]_vars

\* The same with a scheduler that lets every goroutine that can take a step
\* take one, and probes that end (the client has a timeout).
SpecBatchFair ==
    /\ SpecBatch
    /\ WF_vars(Spawn(1))
    /\ WF_vars(Wait(1))
    /\ \A g \in Workers : WF_vars(ProbeStep(g))

\* The steps of a goroutine started by a run when the download succeeds (a
\* failed download changes the Speed assigned, not what the call returns).
TestProbeStep(g) ==
    \/ CalculateScore(g, 1)
    \/ \E ok \in BOOLEAN : Reach(g, ok, 1)
    \/ Decode(g, Classify(TRUE, ""))
    \/ CheckSpeed(g, TRUE, 10)
    \/ Release(g)
    \/ Done(g)

\* Two runs of TestAllProxies that may overlap, on a raw list of two
\* candidates (or none), the reachability probe succeeding or failing.
InitTest ==
    \E raw \in {<<>>, <<1, 2>>} :
        InitCheck(ValidateHeap, raw, <<>>, [r \in Runs |-> NoBatch],
                  [w \in Workers |-> NoProbe])

NextTest ==
    \/ \E r \in Runs : TestStep(r)
    \/ \E g \in Workers : TestProbeStep(g)
    \/ \E g \in Workers : PromoteStep(g)

SpecTest == InitTest /\ [][NextTest]_vars

\* One run of TestAllProxies and nothing else, on a raw list of candidates
\* with distinct addresses and a valid list left by an earlier run; the limit
\* lets every candidate of the list be probed at the same time.
InitRun ==
    \E raw \in {<<>>, <<1, 2>>, <<3, 1, 2>>} :
    \E valid \in IF raw = <<>> THEN {<<>>} ELSE {<<>>, <<2>>} :
        InitCheck(ValidateHeap, raw, valid, [r \in Runs |-> NoBatch],
                  [w \in Workers |-> NoProbe])

NextRun ==
    \/ TestGetRaw(1)
    \/ GetRawProxies(MainOf(1))
    \/ Unlock(MainOf(1), TRUE)
    \/ TestBegin(1)
    \/ TestClear(1)
    \/ SetValidProxiesBody(MainOf(1))
    \/ TestLoopWide(1)
    \/ Spawn(1)
    \/ Wait(1)
    \/ \E g \in Workers : TestProbeStep(g)
    \/ \E g \in Workers : PromoteStep(g)

SpecRun == InitRun /\ [][NextRun]_vars

\* calculateScore on candidates with latencies, speeds and fail counts below,
\* at and above the limits of the formula, and every anonymity.
ScoreLatencies == {0, 1, 49, 50, 51, 6000}
ScoreSpeeds == {0, 10, 990, 1000, 1010, 100000}
ScoreFailCounts == {0, 1, 8, 19, 20, 21}
ScoreAnonymities == {"", "Transparent", "Anonymous", "Elite"}

InitScore ==
    \E l \in ScoreLatencies, s \in ScoreSpeeds, f \in ScoreFailCounts,
       a \in ScoreAnonymities :
        InitCheck([p \in CandIds |->
                      [Candidate(p, l, s, f, 0) EXCEPT !.Anonymity = a, !.Score = 0]],
                  <<1>>, <<>>, [r \in Runs |-> NoBatch],
                  [w \in Workers |-> IF w = 1 THEN [NoProbe EXCEPT !.pc = "score", !.p = 1]
                                     ELSE NoProbe])

NextScore == \E now \in Clock : CalculateScore(1, now)

SpecScore == InitScore /\ [][NextScore]_vars

\* FetchAllProxies alone: every source fails or returns up to MaxSourceLen
\* addresses, the source goroutines finish in any order and the caller
\* receives while they run.
SourceLists == SeqsUpTo(1..NumAddresses, MaxSourceLen)

InitFetch == InitPool(AddRawHeap, <<>>, <<>>)

NextFetch ==
    \/ FetchAllProxies
    \/ FetchSpawn
    \/ FetchCollect
    \/ \E s \in Sources, as \in SourceLists : FetchFromSource(s, TRUE, as)
    \/ \E s \in Sources : FetchFromSource(s, FALSE, <<>>)
    \/ FetchClose
    \/ FetchReceive
    \/ FetchReturn

SpecFetch == InitFetch /\ [][NextFetch]_vars

\* The rotation switch, the interval setting, the tickers and the rotation
\* goroutines over a valid list of two candidates.
RotationIntervals == {0, 30}

InitRotate == InitPool(AddRawHeap, <<1, 2>>, <<1, 2>>)

NextRotate ==
    \/ \E enable \in BOOLEAN, drain \in BOOLEAN : ToggleRotation(enable, drain)
    \/ \E seconds \in RotationIntervals, drain \in BOOLEAN :
          SetRotationInterval(seconds, drain)
    \/ \E n \in Rotators : Tick(n)
    \/ \E g \in Rotators : RotationSelect(g)
    \/ \E g \in Rotators, r2 \in Draws(heap, validProxies) : RotationTick(g, r2)
    \/ \E g \in Rotators : RotationExit(g)

SpecRotate == InitRotate /\ [][NextRotate]_vars

\* ------------------------------------------- reading a client stream
\* These describe the client's stream by the wire format alone; they use
\* none of the functions above.
GreetingLen(s) == 2 + s[2]
ValidGreeting(s) == Len(s) >= 2 /\ s[1] = 5 /\ Len(s) >= GreetingLen(s)
BadGreeting(s) == Len(s) < 2 \/ s[1] # 5 \/ Len(s) < GreetingLen(s)
RequestOf(s) == SubSeq(s, GreetingLen(s) + 1, Len(s))

CompleteIPv4Request(q) == Len(q) >= 10 /\ q[1] = 5 /\ q[2] = 1 /\ q[4] = 1
CompleteDomainRequest(q) ==
    Len(q) >= 5 /\ q[1] = 5 /\ q[2] = 1 /\ q[4] = 3 /\ Len(q) >= 5 + q[5] + 2
RejectedHeader(q) == Len(q) >= 4 /\ (q[1] # 5 \/ q[2] # 1 \/ q[4] \notin {1, 3})

\* ds is the decimal numeral of v, without leading zeros.
RECURSIVE DecValue(_)
DecValue(ds) ==
    IF ds = <<>> THEN 0
    ELSE 10 * DecValue(SubSeq(ds, 1, Len(ds) - 1)) + (ds[Len(ds)] - 48)
IsDecimalOf(ds, v) ==
    /\ ds # <<>>
    /\ \A i \in 1..Len(ds) : ds[i] \in 48..57
    /\ Len(ds) > 1 => ds[1] # 48
    /\ DecValue(ds) = v

\* The fields of t between the separators sep.
RECURSIVE Split(_, _)
Split(t, sep) ==
    IF \A i \in 1..Len(t) : t[i] # sep THEN <<t>>
    ELSE LET k == CHOOSE i \in 1..Len(t) : t[i] = sep /\ \A j \in 1..(i - 1) : t[j] # sep
         IN <<SubSeq(t, 1, k - 1)>> \o Split(SubSeq(t, k + 1, Len(t)), sep)

\* t is host, a colon and the decimal numeral of port.
IsHostColonPort(t, host, port) ==
    /\ Len(t) > Len(host) + 1
    /\ SubSeq(t, 1, Len(host)) = host
    /\ t[Len(host) + 1] = 58
    /\ IsDecimalOf(SubSeq(t, Len(host) + 2, Len(t)), port)

\* t is "a.b.c.d:port".
IsDottedQuadPort(t, a, b, c, d, port) ==
    LET hp == Split(t, 58) IN
    /\ Len(hp) = 2
    /\ IsDecimalOf(hp[2], port)
    /\ LET f == Split(hp[1], 46) IN
       /\ Len(f) = 4
       /\ IsDecimalOf(f[1], a) /\ IsDecimalOf(f[2], b)
       /\ IsDecimalOf(f[3], c) /\ IsDecimalOf(f[4], d)

AuthRan(r) == r.pc \notin {"idle", "auth"}
ConnectRan(r) == "connect" \in Range(r.trace) /\ r.pc # "connect"
HasSuccessFrame(r) ==
    \E i \in 1..(Len(r.sent) - Len(SuccessFrame) + 1) :
        SubSeq(r.sent, i, i + Len(SuccessFrame) - 1) = SuccessFrame

\* -------------------------------------------------------------- claims
\* C1: the client receives the success frame 05 00 00 01 00 00 00 00 00 00
\* only on a connection where a candidate was selected and the upstream
\* dial succeeded.
C1_SuccessFrameOnlyAfterDial ==
    \A c \in Conns :
        HasSuccessFrame(conn[c]) => conn[c].proxy # NilProxy /\ conn[c].dialOk

\* C2: no client input on one connection ends the accept loop or the
\* handler of another connection.
C2_ClientInputStaysLocal ==
    /\ ~crashed
    /\ \A l \in Loops : loops[l].pc # "killed"
    /\ \A c \in Conns : conn[c].pc # "killed"

C4_BadGreetingIsFatal ==
    \A c \in Conns :
        LET r == conn[c] IN
        (AuthRan(r) /\ BadGreeting(r.stream)) =>
            /\ r.sent = <<>>
            /\ r.trace = <<"auth", "closed">>
            /\ r.selects = 0 /\ r.proxy = NilProxy /\ r.dials = 0
            /\ r.pc = "closed" /\ ~r.clientOpen

C4_Witness ==
    \E c \in Conns :
        /\ conn[c].pc = "closed"
        /\ Len(conn[c].stream) >= 2
        /\ conn[c].stream[1] = 5
        /\ Len(conn[c].stream) < GreetingLen(conn[c].stream)

\* C5: a CONNECT request with a domain of length L in 0..255 and port P
\* yields the target "<domain>:<P>".
C5_DomainTarget ==
    \A c \in Conns :
        LET r == conn[c]
            q == RequestOf(r.stream) IN
        (ConnectRan(r) /\ ValidGreeting(r.stream) /\ CompleteDomainRequest(q)) =>
            IsHostColonPort(r.target, SubSeq(q, 6, 5 + q[5]),
                            256 * q[6 + q[5]] + q[7 + q[5]])

\* C6: a CONNECT request with the IPv4 address a.b.c.d and the port bytes
\* hi, lo yields the target "a.b.c.d:P" with P = 256*hi + lo.
C6_IPv4Target ==
    \A c \in Conns :
        LET r == conn[c]
            q == RequestOf(r.stream) IN
        (ConnectRan(r) /\ ValidGreeting(r.stream) /\ CompleteIPv4Request(q)) =>
            IsDottedQuadPort(r.target, q[5], q[6], q[7], q[8], 256 * q[9] + q[10])

C6_Witness ==
    \E c \in Conns :
        LET r == conn[c]
            q == RequestOf(r.stream) IN
        /\ ConnectRan(r) /\ ValidGreeting(r.stream) /\ CompleteIPv4Request(q)
        /\ <<q[5], q[6], q[7], q[8]>> = <<93, 184, 216, 34>>
        /\ r.target = <<57, 51, 46, 49, 56, 52, 46, 50, 49, 54, 46, 51, 52, 58, 56, 48>>

\* The states of the specification's connection state machine.
ConnState(pc) ==
    CASE pc = "auth" -> "AwaitingGreeting"
      [] pc = "connect" -> "AwaitingRequest"
      [] pc \in {"select", "dial", "relay"} -> "Relaying"
      [] pc \in {"closed", "killed"} -> "Closed"
      [] OTHER -> "None"
StateRank(st) ==
    CASE st = "None" -> 0
      [] st = "AwaitingGreeting" -> 1
      [] st = "AwaitingRequest" -> 2
      [] st = "Relaying" -> 3
      [] st = "Closed" -> 4

PayloadRelayed(r) == r.upRecv # <<>> \/ r.down # <<>>

\* C7: a connection goes through AwaitingGreeting, AwaitingRequest, Relaying,
\* Closed in this order, never backwards; payload is relayed only after the
\* greeting was accepted, the request parsed, an upstream selected and the
\* dial succeeded; a closed connection does not change any more.
C7_StateOrder ==
    /\ [](\A c \in Conns :
            LET r == conn[c] IN
            /\ \A i \in 1..Len(r.trace) : \A j \in 1..Len(r.trace) :
                  i < j => StateRank(ConnState(r.trace[i])) <= StateRank(ConnState(r.trace[j]))
            /\ PayloadRelayed(r) =>
                  /\ SubSeq(r.sent, 1, 2) = <<5, 0>>
                  /\ r.target # <<>>
                  /\ r.proxy # NilProxy
                  /\ r.dialOk
                  /\ <<"auth", "connect", "select", "dial", "relay">> = SubSeq(r.trace, 1, 5))
    /\ [][\A c \in Conns :
            /\ StateRank(ConnState(conn[c].pc)) <= StateRank(ConnState(conn'[c].pc))
            /\ ConnState(conn[c].pc) = "Closed" => conn'[c] = conn[c]]_vars

C7_Witness ==
    \E c \in Conns :
        /\ conn[c].pc = "closed"
        /\ conn[c].trace = <<"auth", "connect", "select", "dial", "relay", "closed">>
        /\ conn[c].upRecv # <<>>
        /\ conn[c].down # <<>>

C9_RelayHalfClose ==
    /\ [](\A c \in Conns :
            LET r == conn[c] IN
            /\ r.upWriteClosed => r.c2u = "done"
            /\ r.cliWriteClosed => r.u2c = "done"
            /\ (r.pc = "relay" /\ "copying" \in {r.c2u, r.u2c}) =>
                  r.clientOpen /\ r.upstream = "open")
    /\ [][\A c \in Conns :
            LET r == conn[c]
                n == conn'[c] IN
            /\ (r.pc = "relay" /\ n.pc = "closed") => r.c2u = "done" /\ r.u2c = "done"
            /\ (r.c2u = "copying" /\ n.c2u = "done") =>
                  /\ n.upWriteClosed
                  /\ n.u2c = r.u2c /\ n.cliWriteClosed = r.cliWriteClosed
                  /\ n.upbuf = r.upbuf /\ n.down = r.down
                  /\ n.pc = "relay" /\ n.clientOpen /\ n.upstream = "open"
            /\ (r.u2c = "copying" /\ n.u2c = "done") =>
                  /\ n.cliWriteClosed
                  /\ n.c2u = r.c2u /\ n.upWriteClosed = r.upWriteClosed
                  /\ n.inbuf = r.inbuf /\ n.upRecv = r.upRecv
                  /\ n.pc = "relay" /\ n.clientOpen /\ n.upstream = "open"]_vars

C9_Witness ==
    \E c \in Conns :
        /\ conn[c].pc = "relay"
        /\ conn[c].c2u = "done" /\ conn[c].upWriteClosed
        /\ conn[c].u2c = "copying" /\ ~conn[c].cliWriteClosed
        /\ conn[c].upbuf # <<>>

\* C10: when a handler has ended, by whichever path, its client socket is
\* closed, and so is its upstream socket if one was opened.
C10_SocketsClosedAtEnd ==
    \A c \in Conns :
        LET r == conn[c] IN
        /\ r.pc \in {"closed", "killed"} => ~r.clientOpen /\ r.upstream # "open"
        /\ (r.pc \in {"closed", "killed"} /\ r.dialOk) => r.upstream = "closed"
        /\ Active(r) => r.clientOpen

C10_Witness ==
    \E c \in Conns :
        /\ conn[c].pc = "closed"
        /\ conn[c].trace = <<"auth", "connect", "select", "dial", "relay", "closed">>
        /\ conn[c].dialOk
        /\ conn[c].upstream = "closed"
        /\ ~conn[c].clientOpen


\* C11: when a connection reaches selection while the valid set is empty,
\* GetNextProxy is called once and returns nil, dialUpstream is never called
\* and the handler ends with the client socket closed; the connection is
\* closed for good, it is neither queued nor retried.
C11_EmptyPoolClosesConnection ==
    /\ [][\A c \in Conns :
            (conn[c].pc = "select" /\ validProxies = <<>> /\ conn'[c] # conn[c])
            => /\ conn'[c].pc = "closed"
               /\ conn'[c].trace = <<"auth", "connect", "select", "closed">>
               /\ conn'[c].selects = 1
               /\ conn'[c].proxy = NilProxy
               /\ conn'[c].dials = 0
               /\ ~conn'[c].clientOpen
               /\ conn'[c].upstream = "none"]_vars
    /\ [][\A c \in Conns : conn[c].pc = "closed" => conn'[c] = conn[c]]_vars

\* A connection that found the valid set empty, after the set had been
\* non-empty while the connection was open.
C11_Witness ==
    /\ validProxies = <<>>
    /\ conn[1].pc = "closed"
    /\ conn[1].selects = 1
    /\ conn[1].proxy = NilProxy
    /\ conn[1].dials = 0
    /\ conn[1].target # <<>>

\* The accept loop started by the l-th successful Start listens on listener
\* l; that Start has been matched by a Stop once listener l is closed.
Stopped(l) == loops[l].pc # "none" /\ l \notin lsnOpen

\* C12: after Stop() has returned, the accept loop started by the matching
\* Start() accepts no further connection (and eventually ends), also when
\* Start() is called again right after Stop().
C12_StoppedLoopAcceptsNothing ==
    [][\A l \in Loops :
         Stopped(l) => ~(/\ loops[l].pc = "blocked"
                         /\ loops'[l].pc = "top"
                         /\ conn' # conn)]_vars

\* A step in which a call of Stop takes effect or returns its error.
StopStep ==
    \/ running /\ ~running'
    \/ lastCall' # lastCall /\ lastCall'.op = "Stop"

\* C13: Stop() changes the listener and the running flag only: every
\* connection that is in greeting, request, dial or relay state keeps its
\* state and its sockets, and its handler goes on, stopped server or not,
\* until it ends by itself.
C13_StopLeavesConnections ==
    /\ [][StopStep => /\ conn' = conn
                      /\ loops' = loops
                      /\ listener' = listener
                      /\ crashed' = crashed
                      /\ poolVars' = poolVars]_vars
    /\ [](\A c \in Conns :
             (~running /\ ~crashed /\ Active(conn[c])) => ENABLED HandlerStep(c))

\* Stop has returned without error and the connection is still relaying.
C13_Witness ==
    /\ lastCall.op = "Stop"
    /\ lastCall.err = ""
    /\ ~running
    /\ conn[1].pc = "relay"
    /\ conn[1].clientOpen
    /\ conn[1].upstream = "open"

\* A step in which a call of Start or Stop returns.
CallStep == lastCall' # lastCall

\* C14: Start() on a running server returns an error and leaves listener and
\* running flag unchanged; Stop() on a server that is not running returns an
\* error and changes nothing; a Start() whose bind fails returns an error and
\* leaves the server not running; after any sequence of calls the server is
\* running exactly when the last call that returned no error was Start().
C14_StartStopContract ==
    /\ [][CallStep =>
            /\ (lastCall'.op = "Start" /\ running)
               => /\ lastCall'.err # ""
                  /\ UNCHANGED <<running, listener, lsnOpen, loops, conn>>
            /\ (lastCall'.op = "Stop" /\ ~running)
               => /\ lastCall'.err # ""
                  /\ UNCHANGED <<running, listener, lsnOpen, loops, conn, crashed, poolVars, checkVars, appVars>>
            /\ (lastCall'.op = "Start" /\ ~running /\ lastCall'.err # "")
               => /\ ~running'
                  /\ UNCHANGED <<listener, lsnOpen, loops, conn>>
            /\ (lastCall'.op = "Start" /\ ~running /\ lsnOpen' = lsnOpen)
               => lastCall'.err # ""
            /\ lastCall'.err = "" => (running' <=> lastCall'.op = "Start")]_vars
    /\ [](running <=> lastCall.ok = "Start")

\* A bind has failed after the server had been started and stopped.
C14_Witness ==
    /\ lastCall.op = "Start"
    /\ lastCall.err = "failed to listen"
    /\ lastCall.ok = "Stop"
    /\ ~running
    /\ listener >= 1

\* What a reader of the pool is given: the candidates of both lists, in
\* order, with the values of their fields.
PoolRead ==
    [raw |-> [k \in 1..Len(rawProxies) |-> heap[rawProxies[k]]],
     valid |-> [k \in 1..Len(validProxies) |-> heap[validProxies[k]]]]

\* C15: snapshots and pool storage never alias: when the holder of a list
\* returned by GetRaw, GetValid or FilteredSorted, or of a candidate returned
\* by the weighted selection, changes a field of a candidate it holds, what
\* a later pool read returns does not change.
C15_SnapshotsDoNotAlias ==
    [][heap' # heap => PoolRead' = PoolRead]_vars

\* C16: starting from a raw set without duplicate addresses, after any
\* sequence of AddRaw calls, sequential or concurrent, with lists that
\* overlap each other, overlap the raw set or hold an address several times,
\* no two entries of the raw set have the same address.
C16_RawAddressesUnique == NoDuplicateAddress(heap, rawProxies)

\* AddRawProxies has run to its end on a list of two different candidates
\* with the same address, found no such address in the raw list, and
\* appended one of them.
C16_Witness ==
    \E g \in Callers :
        /\ callers[g].pc = "done"
        /\ callers[g].op = "AddRawProxies"
        /\ Len(callers[g].arg.list) = 2
        /\ callers[g].arg.list[1] # callers[g].arg.list[2]
        /\ heap[callers[g].arg.list[1]].Address = heap[callers[g].arg.list[2]].Address
        /\ callers[g].before.raw # <<>>
        /\ rawProxies = Append(callers[g].before.raw, callers[g].arg.list[1])

\* The valid list that the first of the calls found.
FirstBefore ==
    CHOOSE b \in {callers[g].before.valid : g \in Callers} :
        \A g \in Callers : Len(b) <= Len(callers[g].before.valid)

Occurrences(ps, p) == Cardinality({k \in 1..Len(ps) : ps[k] = p})

\* C17: when N callers concurrently call AddValid with one candidate each on
\* a valid set of size K and no other mutator runs, then after all calls
\* have returned the valid set has size K+N: it is the set found by the
\* first call followed by every added candidate, none lost.
C17_NoLostAddValid ==
    (\A g \in Callers : callers[g].pc = "returned")
    => /\ Len(validProxies) = Len(FirstBefore) + NumCallers
       /\ SubSeq(validProxies, 1, Len(FirstBefore)) = FirstBefore
       /\ \A p \in CandIds :
             Occurrences(validProxies, p) =
                Occurrences(FirstBefore, p)
                + Cardinality({g \in Callers : callers[g].arg.list = <<p>>})

\* All calls have returned; the set was not empty before, and two of the
\* calls added the same candidate.
C17_Witness ==
    /\ \A g \in Callers : callers[g].pc = "returned"
    /\ FirstBefore # <<>>
    /\ \E g, h \in Callers : g # h /\ callers[g].arg.list = callers[h].arg.list
    /\ Len(validProxies) = Len(FirstBefore) + NumCallers

\* The pool after the operation op with arg has been applied as a whole to
\* the pool b.
AppliedTo(b, op, arg) ==
    CASE op = "SetRawProxies" -> [b EXCEPT !.raw = arg.list]
      [] op = "AddRawProxies" ->
            [b EXCEPT !.raw = AppendUnseen(heap, b.raw, Addresses(heap, b.raw), arg.list)]
      [] op = "SetValidProxies" -> [b EXCEPT !.valid = arg.list]
      [] op = "AddValidProxies" -> [b EXCEPT !.valid = b.valid \o arg.list]
      [] op = "CleanupProxies" -> [b EXCEPT !.valid = Kept(heap, b.valid, arg.a, arg.b)]
      [] OTHER -> b

\* The caller record c holds what the operation it is in returns on the pool b.
ReturnsOn(b, c) ==
    CASE c.op = "GetRawProxies" -> c.ret = b.raw
      [] c.op = "GetValidProxies" -> c.ret = b.valid
      [] c.op = "GetValidProxyCount" -> c.n = Len(b.valid)
      [] c.op = "GetFilteredAndSortedProxies" ->
            LET f == Filtered(heap, b.valid, c.arg.a, c.arg.b) IN
            c.ret = SliceStable(heap, f, Len(f))
      [] c.op = "GetNextProxy" ->
            IF b.valid = <<>> THEN c.ret = <<>>
            ELSE \E r2 \in Draws(heap, b.valid) : c.ret = <<GetNextProxy(heap, b.valid, r2)>>
      [] OTHER -> TRUE

InSection(g) == callers[g].pc \in {"in", "done"}

\* C18: every pool operation is atomic with respect to every other.  No
\* operation is inside the pool together with a writer; a reader finds the
\* pool as it was when the reader entered, so it never sees a partly applied
\* AddRaw, AddValid or Cleanup; and an operation that has run to its end has
\* returned, and left in the pool, what the operation applied as a whole to
\* the pool it found yields.
C18_OperationsAtomic ==
    /\ \A g, h \in Callers :
          (g # h /\ InSection(g) /\ InSection(h))
          => callers[g].op \in ReadOps /\ callers[h].op \in ReadOps
    /\ \A g \in Callers :
          (InSection(g) /\ callers[g].op \in ReadOps) => Pool = callers[g].before
    /\ \A g \in Callers :
          callers[g].pc = "done"
          => /\ Pool = AppliedTo(callers[g].before, callers[g].op, callers[g].arg)
             /\ ReturnsOn(callers[g].before, callers[g])

\* Two readers are inside the pool at once, one of them at its end with a
\* list of two candidates, after AddRawProxies had appended in two steps.
C18_Witness ==
    \E g, h \in Callers :
        /\ g # h
        /\ callers[g].pc = "done"
        /\ callers[g].op = "GetRawProxies"
        /\ Len(callers[g].ret) = 2
        /\ callers[h].pc = "in"
        /\ callers[h].op = "GetValidProxies"
        /\ validProxies # <<>>

\* The j-th smallest element of the set K of numbers.
Nth(K, j) == CHOOSE k \in K : Cardinality({m \in K : m <= k}) = j

\* ps is the list b restricted to the positions K, in the order of b.
IsRestriction(ps, b, K) ==
    /\ Len(ps) = Cardinality(K)
    /\ \A j \in 1..Len(ps) : ps[j] = b[Nth(K, j)]

\* C19: Cleanup(maxAge) leaves in the valid set exactly the candidates with
\* failCount < 5 and now - lastChecked <= maxAge, in their previous relative
\* order, removes every other candidate, and does not change the raw set.
C19_CleanupKeepsExactly ==
    \A g \in Callers :
        (callers[g].pc = "done" /\ callers[g].op = "CleanupProxies")
        => LET b == callers[g].before.valid
               maxAge == callers[g].arg.a
               now == callers[g].arg.b
               K == {k \in 1..Len(b) :
                       /\ heap[b[k]].FailCount < 5
                       /\ now - heap[b[k]].LastChecked <= maxAge} IN
           /\ IsRestriction(validProxies, b, K)
           /\ rawProxies = callers[g].before.raw

\* Cleanup has removed one candidate for its fail count and one for its age
\* and kept, behind them, a candidate whose age is exactly maxAge.
C19_Witness ==
    /\ callers[1].pc = "done"
    /\ callers[1].op = "CleanupProxies"
    /\ Len(callers[1].before.valid) = 3
    /\ LET b == callers[1].before.valid
           maxAge == callers[1].arg.a
           now == callers[1].arg.b IN
       /\ heap[b[1]].FailCount >= 5 /\ now - heap[b[1]].LastChecked <= maxAge
       /\ heap[b[2]].FailCount < 5 /\ now - heap[b[2]].LastChecked > maxAge
       /\ heap[b[3]].FailCount < 5 /\ now - heap[b[3]].LastChecked = maxAge
       /\ validProxies = <<b[3]>>
    /\ rawProxies # <<>>

\* The entries of ps at the positions K, in the order of ps.
Restricted(ps, K) == [j \in 1..Cardinality(K) |-> ps[Nth(K, j)]]

\* C20: FilteredSorted(maxLatency, minSpeed) returns exactly the valid
\* candidates p with (maxLatency < 0 or p.latency <= maxLatency) and
\* (minSpeed < 0 or p.throughput >= minSpeed), each as often as it occurs in
\* the valid set, by ascending latency, candidates of equal latency in their
\* order in the valid set; the pool's own valid set keeps its order.
C20_FilteredSorted ==
    \A g \in Callers :
        (callers[g].pc = "done" /\ callers[g].op = "GetFilteredAndSortedProxies")
        => LET b == callers[g].before.valid
               ret == callers[g].ret
               maxLatency == callers[g].arg.a
               minSpeed == callers[g].arg.b
               Ok(p) == /\ maxLatency < 0 \/ heap[p].Latency <= maxLatency
                        /\ minSpeed < 0 \/ heap[p].Speed >= minSpeed IN
           /\ \A p \in CandIds :
                 Occurrences(ret, p) = IF Ok(p) THEN Occurrences(b, p) ELSE 0
           /\ \A j, k \in 1..Len(ret) :
                 j < k => heap[ret[j]].Latency <= heap[ret[k]].Latency
           /\ \A l \in {heap[p].Latency : p \in CandIds} :
                 Restricted(ret, {k \in 1..Len(ret) : heap[ret[k]].Latency = l})
                 = Restricted(b, {k \in 1..Len(b) : Ok(b[k]) /\ heap[b[k]].Latency = l})
           /\ validProxies = b

\* Under a speed bound that all three candidates meet, the call has moved
\* two different candidates of equal latency, in their order, before a
\* candidate of higher latency that stood first.
C20_Witness ==
    /\ callers[1].pc = "done"
    /\ callers[1].op = "GetFilteredAndSortedProxies"
    /\ callers[1].arg.b >= 0
    /\ \E x, y, z \in CandIds :
          /\ y # z
          /\ heap[y].Latency = heap[z].Latency
          /\ heap[x].Latency > heap[y].Latency
          /\ callers[1].before.valid = <<x, y, z>>
          /\ callers[1].ret = <<y, z, x>>
    /\ validProxies = callers[1].before.valid

\* ---------------------------------------------------------------- C21
\* C21: GetNextProxy returns nil exactly when the valid list is empty at the
\* time of the call; otherwise, whatever the draw, it returns a candidate of
\* the valid list of that time; and it leaves the raw list and the valid
\* list as they were.
C21_SelectReturnsMember ==
    \A g \in Callers :
        (callers[g].pc = "done" /\ callers[g].op = "GetNextProxy") =>
            LET c == callers[g] IN
            /\ (c.ret = <<>>) <=> (c.before.valid = <<>>)
            /\ c.ret # <<>> => Len(c.ret) = 1 /\ c.ret[1] \in Range(c.before.valid)
            /\ Pool = c.before

\* GetNextProxy has returned the second candidate of a valid list of three,
\* over a raw list that is not empty.
C21_Witness ==
    \E g \in Callers :
        /\ callers[g].pc = "done"
        /\ callers[g].op = "GetNextProxy"
        /\ Len(validProxies) = 3
        /\ rawProxies # <<>>
        /\ callers[g].ret = <<validProxies[2]>>
        /\ validProxies[2] # validProxies[1]
        /\ validProxies[2] # validProxies[3]

\* ---------------------------------------------------------------- C22
\* The cumulative weight of the first i candidates of ps.
Cumulative(h, ps, i) == SumWeights(h, SubSeq(ps, 1, i))

\* The draws (doubled) that lie above the cumulative weight of the first
\* i - 1 candidates and not above that of the first i; the draw 0 belongs to
\* the first candidate.
DrawsOf(h, ps, i) ==
    {r2 \in Draws(h, ps) :
        /\ r2 <= 2 * Cumulative(h, ps, i)
        /\ i > 1 => r2 > 2 * Cumulative(h, ps, i - 1)}

\* C22: on a valid list p1..pn that is not empty, with the weights
\* 1/(Latency+0.1) + 0.1*Speed and a draw r below their sum, GetNextProxy
\* returns the first pi whose cumulative weight is at least r; so the draws
\* that select pi are those between the cumulative weight before pi and the
\* one with pi, an interval as long as the weight of pi.
C22_SelectByCumulativeWeight ==
    [][\A g \in Callers, r2 \in Draws(heap, validProxies) :
          (GetNextProxyBody(g, r2) /\ validProxies # <<>>) =>
              \E i \in 1..Len(validProxies) :
                  /\ callers'[g].ret = <<validProxies[i]>>
                  /\ 2 * Cumulative(heap, validProxies, i) >= r2
                  /\ \A j \in 1..(i - 1) : 2 * Cumulative(heap, validProxies, j) < r2
                  /\ r2 \in DrawsOf(heap, validProxies, i)
                  /\ 2 * Cumulative(heap, validProxies, i)
                       - 2 * Cumulative(heap, validProxies, i - 1)
                     = 2 * Weight(heap[validProxies[i]])
                  /\ Weight(heap[validProxies[i]]) * 10 * (heap[validProxies[i]].Latency + 1)
                     = 100 + heap[validProxies[i]].Speed * (heap[validProxies[i]].Latency + 1)]_vars

\* GetNextProxy has returned the middle one of three candidates of different
\* weights.
C22_Witness ==
    \E g \in Callers :
        /\ callers[g].pc = "done"
        /\ callers[g].op = "GetNextProxy"
        /\ validProxies = <<1, 2, 3>>
        /\ callers[g].ret = <<2>>

\* ---------------------------------------------------------------- C23
\* How often the address a is in the list ps.
AddressCount(h, ps, a) == Cardinality({k \in 1..Len(ps) : h[ps[k]].Address = a})

\* C23: AddValidProxies(list) puts every candidate of list at the end of the
\* valid list, in the order of list and without leaving any out: the valid
\* list grows by exactly len(list), its former entries stay where they were,
\* and an address that was there already, or is in list twice, is in the
\* valid list more than once.
C23_AddValidAppendsAll ==
    \A g \in Callers :
        (callers[g].pc = "done" /\ callers[g].op = "AddValidProxies") =>
            LET old == callers[g].before.valid
                list == callers[g].arg.list
            IN  /\ Len(validProxies) = Len(old) + Len(list)
                /\ \A k \in 1..Len(old) : validProxies[k] = old[k]
                /\ \A k \in 1..Len(list) : validProxies[Len(old) + k] = list[k]
                /\ \A k \in 1..Len(list) :
                      LET a == heap[list[k]].Address IN
                      AddressCount(heap, validProxies, a)
                          = AddressCount(heap, old, a) + AddressCount(heap, list, a)

\* AddValidProxies has added a candidate whose address was in the valid list,
\* and the address is now there twice.
C23_Witness ==
    \E g \in Callers :
        /\ callers[g].pc = "done"
        /\ callers[g].op = "AddValidProxies"
        /\ Len(callers[g].before.valid) = 2
        /\ Len(callers[g].arg.list) = 1
        /\ LET a == heap[callers[g].arg.list[1]].Address IN
           /\ AddressCount(heap, callers[g].before.valid, a) = 1
           /\ AddressCount(heap, validProxies, a) = 2

\* ---------------------------------------------------------------- C24
\* C24: when a call of CheckConnectivityAndSpeed has returned no error, the
\* Score of the candidate is the score formula applied to the Latency, Speed
\* and Anonymity this call measured (the values the candidate now has), with
\* the penalty of its FailCount.
C24_ScoreFromThisProbe ==
    \A g \in Workers :
        (probes[g].pc = "returned" /\ probes[g].err = "") =>
            heap[probes[g].p].Score = ScoreOf(heap[probes[g].p])

\* ---------------------------------------------------------------- C25
\* C25: a call of CheckConnectivityAndSpeed whose GET of the echo endpoint
\* fails leaves the candidate with a greater FailCount than it had, and no
\* step makes the FailCount of a candidate smaller.
C25_FailCountGrowsOnFailure ==
    [][/\ \A g \in Workers :
             (probes[g].pc = "get" /\ probes'[g].pc = "returned" /\ probes'[g].err = "get")
                 => heap'[probes[g].p].FailCount > probes[g].oldFail
       /\ \A p \in DOMAIN heap : heap'[p].FailCount >= heap[p].FailCount]_vars

\* ---------------------------------------------------------------- C26
\* C26: CheckConnectivityAndSpeed returns an error when either probe fails:
\* without running the download when the GET of the echo endpoint failed,
\* and, when only the download failed, with the Latency the GET measured
\* still on the candidate.
C26_ErrorFromEitherProbe ==
    \A g \in Workers :
        probes[g].pc = "returned" =>
            /\ (probes[g].calls > 0 /\ ~probes[g].reached) =>
                   probes[g].err # "" /\ ~probes[g].dlErr
            /\ probes[g].dlErr =>
                   probes[g].err # "" /\ heap[probes[g].p].Latency \in Latencies

\* ---------------------------------------------------------------- C27
\* The goroutines of run r that are inside CheckConnectivityAndSpeed.
InProgress(r) == {g \in Workers : probes[g].run = r /\ Validating(g)}

\* C27: at every moment of a run of ConcurrentCheck(proxies, workers) or of
\* TestAllProxies, the calls of CheckConnectivityAndSpeed in progress are at
\* most as many as the limiter has room for, whatever the length of the list
\* and the interleaving.
C27_AtMostLimitInProgress ==
    \A r \in Runs : Cardinality(InProgress(r)) <= batch[r].limit

\* ConcurrentCheck with a limit of two has two calls in progress and a
\* third candidate waiting for a token.
C27_Witness ==
    /\ batch[1].kind = "ConcurrentCheck"
    /\ batch[1].limit = 2
    /\ Cardinality(InProgress(1)) = 2
    /\ batch[1].i < Len(batch[1].list)

\* ---------------------------------------------------------------- C28
\* C28: a run of ConcurrentCheck on a finite list with a limit of at least
\* one returns, when every call of CheckConnectivityAndSpeed ends; and when
\* it has returned, CheckConnectivityAndSpeed has been called once and has
\* returned for every candidate of the list, whether it returned an error or
\* not.
C28_BatchReturnsAllProbed ==
    /\ (batch[1].pc = "loop") ~> (batch[1].pc = "returned")
    /\ [](batch[1].pc = "returned" =>
            \A k \in 1..Len(batch[1].list) :
                /\ probes[Slot(1, k)].p = batch[1].list[k]
                /\ probes[Slot(1, k)].calls = 1
                /\ probes[Slot(1, k)].pc = "exited")

\* ConcurrentCheck has returned from a list of three with a limit of one;
\* the call on the first candidate returned nil, the call on the second an
\* error.
C28_Witness ==
    /\ batch[1].pc = "returned"
    /\ batch[1].kind = "ConcurrentCheck"
    /\ batch[1].limit = 1
    /\ Len(batch[1].list) = 3
    /\ probes[Slot(1, 1)].err = ""
    /\ probes[Slot(1, 2)].err = "get"
    /\ probes[Slot(1, 3)].pc = "exited"

\* ---------------------------------------------------------------- C30
\* The candidates some goroutine is validating.
BeingValidated == {probes[g].p : g \in {w \in Workers : Validating(w)}}

\* C30: a step of ConcurrentCheck or of CheckConnectivityAndSpeed changes
\* nothing but fields of a candidate it was given: the raw list and the valid
\* list keep their members and their order (no candidate is promoted), and a
\* candidate that is not being validated keeps all its fields.
C30_EngineLeavesPoolAlone ==
    [][/\ rawProxies' = rawProxies
       /\ validProxies' = validProxies
       /\ \A p \in DOMAIN heap :
             heap'[p] # heap[p] =>
                 /\ p \in BeingValidated
                 /\ p \in Range(batch[1].list)
                 /\ heap'[p].Address = heap[p].Address
                 /\ heap'[p].Protocol = heap[p].Protocol]_vars

\* ConcurrentCheck has returned from a list of one candidate, which has the
\* measured latency and speed and is still not in the valid list; the pool
\* has the lists it had.
C30_Witness ==
    /\ batch[1].pc = "returned"
    /\ batch[1].list = <<1>>
    /\ heap[1].Latency = 1
    /\ heap[1].Speed = 10
    /\ probes[Slot(1, 1)].err = ""
    /\ rawProxies = <<1, 2>>
    /\ validProxies = <<2>>

\* ---------------------------------------------------------------- C29
\* Goroutine g of a run of TestAllProxies has got nil from its call of
\* CheckConnectivityAndSpeed on its candidate.
ValidatedOk(g) ==
    /\ probes[g].pc \in {"returned", "released", "exited"}
    /\ probes[g].calls = 1
    /\ probes[g].err = ""

\* C29: in every state of the runs of TestAllProxies, overlapping or not,
\* every entry of the valid list was added by a goroutine whose call of
\* CheckConnectivityAndSpeed on this candidate had returned nil; every step
\* that adds an entry is the step of such a goroutine; and a goroutine whose
\* call returned an error never calls AddValidProxies.
C29_PromotedOnlyAfterSuccess ==
    /\ [](\A k \in 1..Len(validProxies) :
             \E g \in Workers :
                 /\ ValidatedOk(g)
                 /\ probes[g].p = validProxies[k]
                 /\ callers[g].op = "AddValidProxies"
                 /\ callers[g].arg.list = <<validProxies[k]>>)
    /\ [](\A g \in Workers : probes[g].err # "" => callers[g].pc = "idle")
    /\ [][Len(validProxies') > Len(validProxies) =>
             \E g \in Workers :
                 /\ ValidatedOk(g)
                 /\ probes[g].pc = "returned"
                 /\ In(g, "AddValidProxies")
                 /\ validProxies' = Append(validProxies, probes[g].p)]_vars

\* The valid list holds the first candidate, added by the second run, whose
\* call on it returned nil, while the call of the first run on the same
\* candidate returned an error.
C29_Witness ==
    /\ validProxies = <<1>>
    /\ probes[Slot(1, 1)].err = "get"
    /\ probes[Slot(1, 1)].pc = "exited"
    /\ ValidatedOk(Slot(2, 1))
    /\ callers[Slot(2, 1)].pc = "returned"
    /\ callers[Slot(1, 1)].pc = "idle"

\* ---------------------------------------------------------------- C31
\* C31: no step of the handler of a connection, the step of a failed dial
\* included, changes the pool: the raw list, the valid list and every field
\* of every candidate (FailCount, Score and LastChecked of the chosen one
\* among them) are after the step what they were before it.
C31_HandlerLeavesPoolAlone ==
    [][(\E c \in Conns : HandlerStep(c)) =>
          /\ heap' = heap
          /\ rawProxies' = rawProxies
          /\ validProxies' = validProxies]_vars

\* A handler has ended after the dial through the candidate it chose failed,
\* and the candidate is as it was created.
C31_Witness ==
    /\ conn[1].pc = "closed"
    /\ conn[1].trace = <<"auth", "connect", "select", "dial", "closed">>
    /\ conn[1].proxy # NilProxy
    /\ ~conn[1].dialOk
    /\ heap[conn[1].proxy] = InitProxy(conn[1].proxy)

C33_ScoreInRange ==
    \A g \in Workers :
        (probes[g].calls > 0 /\ heap[probes[g].p].Latency >= 0
            /\ heap[probes[g].p].Speed >= 0 /\ heap[probes[g].p].FailCount >= 0) =>
            /\ heap[probes[g].p].Score >= 0
            /\ heap[probes[g].p].Score <= 100 * 25

\* calculateScore has given the full score to an Elite candidate with no
\* latency, a speed above the limit and no failure.
C33_Witness ==
    /\ probes[1].calls = 1
    /\ heap[1].Latency = 0
    /\ heap[1].Speed > 1000
    /\ heap[1].Anonymity = "Elite"
    /\ heap[1].FailCount = 0
    /\ heap[1].Score = 100 * 25

SucceededSources == {s \in Sources : fetch.src[s].st = "ok"}
Offered == UNION {Range(fetch.src[s].list) : s \in SucceededSources}

C35_FetchAllOrError ==
    fetch.pc = "returned" =>
        IF SucceededSources = {}
        THEN fetch.err # ""
        ELSE /\ fetch.err = ""
             /\ Range(fetch.ret) \subseteq Offered
             /\ {x.Address : x \in Range(fetch.ret)} = {x.Address : x \in Offered}
             /\ \A j, k \in 1..Len(fetch.ret) :
                   j # k => fetch.ret[j].Address # fetch.ret[k].Address

\* ---------------------------------------------------------------- C36
\* The accept loops that wait in Accept on a listener that is open.
Accepting == {l \in Loops : loops[l].pc = "blocked" /\ loops[l].lsn \in lsnOpen}

\* C36: at any time at most one accept loop is accepting, and the loop
\* started by the l-th successful Start() accepts on listener l only, never
\* on the listener a later Start() created.
C36_OneAcceptLoop ==
    /\ Cardinality(Accepting) <= 1
    /\ \A l \in Loops : loops[l].pc = "blocked" => loops[l].lsn = l

\* ---------------------------------------------------------------- C37
\* The candidates of the run r whose call of CheckConnectivityAndSpeed
\* returned nil, by their place in the run's list.
Succeeded(r) ==
    {k \in 1..Len(batch[r].list) : probes[Slot(r, k)].calls = 1 /\ probes[Slot(r, k)].err = ""}

WaitingRotators ==
    {g \in Rotators : rotation.gs[g].pc = "blocked"
                      /\ rotation.gs[g].ch \notin rotation.closed}

\* C38: while rotation is enabled at most one rotation goroutine waits for
\* ticks, while it is disabled none does, and the goroutine of the n-th
\* startRotation takes ticks of the n-th ticker only, never of a later one.
C38_OneRotationGoroutine ==
    /\ rotation.status => Cardinality(WaitingRotators) <= 1
    /\ ~rotation.status => WaitingRotators = {}
    /\ \A g \in Rotators : rotation.gs[g].took \subseteq {g}

\* ---------------------------------------------------------------- C39
\* The places of the list whose candidate has an address that is neither in
\* the list old nor earlier in the list.
FirstNew(h, old, list) ==
    {k \in 1..Len(list) :
        /\ h[list[k]].Address \notin {h[old[j]].Address : j \in 1..Len(old)}
        /\ \A j \in 1..(k - 1) : h[list[j]].Address # h[list[k]].Address}

\* C39: no step of AddRawProxies removes, replaces or moves an entry of the
\* raw list or changes a candidate; and when the call is at its end the raw
\* list is the list it found, followed by the candidates of its argument
\* whose address was not in that list, each address once, in the order of
\* their first occurrence in the argument.
C39_AddRawKeepsAndAppends ==
    /\ [][\A g \in Callers :
             AddRawProxies(g) =>
                 /\ heap' = heap
                 /\ Len(rawProxies') >= Len(rawProxies)
                 /\ SubSeq(rawProxies', 1, Len(rawProxies)) = rawProxies]_vars
    /\ [](\A g \in Callers :
             (callers[g].pc = "done" /\ callers[g].op = "AddRawProxies") =>
                 LET old == callers[g].before.raw
                     list == callers[g].arg.list IN
                 /\ Len(rawProxies) >= Len(old)
                 /\ SubSeq(rawProxies, 1, Len(old)) = old
                 /\ IsRestriction(SubSeq(rawProxies, Len(old) + 1, Len(rawProxies)),
                                  list, FirstNew(heap, old, list)))

\* AddRawProxies at its end, called on a raw list holding the first
\* candidate with a list of another candidate with the same address and a
\* candidate with a new address: the first candidate is still the only entry
\* with its address and the new address follows it.
C39_Witness ==
    \E g \in Callers :
        /\ callers[g].pc = "done"
        /\ callers[g].op = "AddRawProxies"
        /\ callers[g].before.raw = <<1>>
        /\ callers[g].arg.list = <<3, 2>>
        /\ heap[3].Address = heap[1].Address
        /\ rawProxies = <<1, 2>>
====
